---- MODULE Spec2Model ----
(***************************************************************************)
(* Model of the go-testdeep operators Array/Slice (td/td_array.go),        *)
(* Re/ReAll (td_re.go) and JSON/SubJSONOf/SuperJSONOf (td_json.go).        *)
(*                                                                         *)
(* Go values are records [k |-> kind, v |-> payload]:                      *)
(*   "int"     an int, v its value (0 is the zero value)                   *)
(*   "ptr"     a *T, v = 0 the typed nil pointer (zero value), v = 1 a     *)
(*             non-nil pointer                                             *)
(*   "nil"     the untyped nil interface                                   *)
(*   "op"      a TestDeep operator, v = 1 is NotZero()                     *)
(*   "invalid" the invalid reflect.Value{}                                 *)
(* A Go slice or array s is the sequence of its elements; Go index i is    *)
(* position i + 1 of the sequence.                                         *)
(***************************************************************************)
EXTENDS Integers, Sequences, FiniteSets, TLC

VARIABLES
    arrModel,     \* "model" argument of the last Array()/Slice() call
    arrEntries,   \* "expectedEntries" argument of that call (ArrayEntries)
    arr,          \* outcome of that call: the *tdArray or the failure
    re,           \* outcome of the last Re()/ReAll() call: the *tdRe or the failure
    allOperators, \* the registry of the operators, by name
    jsCall,       \* arguments of the last JSON()/SubJSONOf()/SuperJSONOf() call
    js,           \* outcome of that call: the operator or the failure
    lastCtx,      \* context of the last Match, with the errors it collected
    lastGot,      \* got value of the last Match
    lastIn,       \* the context the last Match was called with
    lastRet,      \* what that Match returned: "" for nil, else the message
    dispatched,   \* the deepValueEqual calls that Match made on sub-values
    ts,           \* the T instances built so far, in the order they were built
    tCall,        \* the last call of NewT or of a method of T
    tbs,          \* each testing.TB: has it failed, what was logged on it
    runt,         \* the cache of Run methods, by type of TB
    runtMu,       \* the goroutine holding the mutex of the cache, 0 for none
    gs            \* each goroutine: where its call of Run or RunAssertRequire is

arrVars == <<arrModel, arrEntries, arr>>

matchVars == <<lastCtx, lastGot, lastRet, dispatched, lastIn>>

jsVars == <<jsCall, js>>

runVars == <<tbs, runt, runtMu, gs>>

tVars == <<ts, tCall, runVars>>

vars == <<arrModel, arrEntries, arr, re, allOperators, jsCall, js,
         lastCtx, lastGot, lastRet, dispatched, lastIn, ts, tCall,
         tbs, runt, runtMu, gs>>

\* ---------------------------------------------------------------- bounds
MaxLen == 2         \* longest model array/slice
MaxIndex == 2       \* highest index of an ArrayEntries key
MaxOverrides == 2   \* most keys in an ArrayEntries map

\* ---------------------------------------------------------------- values
IntV(i) == [k |-> "int", v |-> i]
PtrV(i) == [k |-> "ptr", v |-> i]
NilV == [k |-> "nil", v |-> 0]
NotZeroOp == [k |-> "op", v |-> 1]
Invalid == [k |-> "invalid", v |-> 0]

ElemKinds == {"int", "ptr"}

\* reflect.Zero(elemType)
Zero(elem) == [k |-> elem, v |-> 0]

ElemValues(elem) == {[k |-> elem, v |-> i] : i \in 0..1}

\* the values an ArrayEntries map can hold
EntryValues == {IntV(0), IntV(1), PtrV(1), NilV, NotZeroOp}

EntryIndexes == (-1)..MaxIndex

At(s, index) == s[index + 1]

SetMax(S) == CHOOSE m \in S : \A x \in S : x <= m

\* every order in which "range" can visit the keys of a map
Orders(dom) ==
    {o \in [1..Cardinality(dom) -> dom] : \A i, j \in DOMAIN o : o[i] = o[j] => i = j}

\* ------------------------------------------------- Array / Slice: models
\* A model of reflect kind "kind" whose items are of kind "elem".  ptr is
\* "no" for a plain array/slice, "ptr" for a pointer on one, "nilptr" for a
\* nil pointer (then only the type is known: len is the array type length).
Model(kind, elem, ptr, elems) ==
    [kind |-> kind, elem |-> elem, ptr |-> ptr, len |-> Len(elems), elems |-> elems]

NilPtrModel(kind, elem, len) ==
    [kind |-> kind, elem |-> elem, ptr |-> "nilptr", len |-> len, elems |-> <<>>]

SeqsUpTo(S, n) == UNION {[1..l -> S] : l \in 0..n}

Models ==
    {Model(kind, elem, ptr, elems) :
        kind \in {"Array", "Slice"}, elem \in ElemKinds,
        ptr \in {"no", "ptr"}, elems \in SeqsUpTo({0, 1}, MaxLen)}

TypedModels ==
    {[m EXCEPT !.elems = [i \in DOMAIN m.elems |-> [k |-> m.elem, v |-> m.elems[i]]]] :
        m \in Models}
    \cup {NilPtrModel("Array", elem, len) : elem \in ElemKinds, len \in 0..MaxLen}
    \cup {NilPtrModel("Slice", elem, 0) : elem \in ElemKinds}

ArrayEntriesSet ==
    UNION {[dom -> EntryValues] :
              dom \in {d \in SUBSET EntryIndexes : Cardinality(d) <= MaxOverrides}}

\* ------------------------------------------- populateExpectedEntries
Failure(status, msg, index) ==
    [status |-> status, msg |-> msg, index |-> index, expectedEntries |-> <<>>]

Populated(entries) ==
    [status |-> "ok", msg |-> "", index |-> 0, expectedEntries |-> entries]

\* lines 167-195: the range over expectedEntries, visited in "order"
RECURSIVE StoreEntries(_, _, _, _, _)
StoreEntries(entries, expectedEntries, order, elem, isArray) ==
    IF order = <<>> THEN Populated(entries)
    ELSE
        LET index == Head(order)
            expectedValue == expectedEntries[index]
        IN  IF expectedValue = NilV /\ elem # "ptr"
            THEN Failure("error", "expected value of #%d cannot be nil as items type is %s", index)
            ELSE IF expectedValue # NilV /\ expectedValue.k # "op" /\ expectedValue.k # elem
            THEN Failure("error", "type %s of #%d expected value differs from %s contents (%s)", index)
            ELSE IF index < 0 \/ index >= Len(entries)
            THEN Failure("panic", "index out of range", index)
            ELSE
                LET vexpectedValue == IF expectedValue = NilV THEN Zero(elem) ELSE expectedValue
                IN  StoreEntries([entries EXCEPT ![index + 1] = vexpectedValue],
                                 expectedEntries, Tail(order), elem, isArray)

\* line 207: is the model item of an index already expected not zero?
nonZeroNever(ventry, elem) == FALSE
nonZero(ventry, elem) == ventry # Zero(elem)

\* lines 199-217: the model entries, from the last one down to the first
RECURSIVE CheckModel(_, _, _, _, _)
CheckModel(entries, expectedEntries, elems, elem, index) ==
    IF index < 0 THEN Populated(entries)
    ELSE
        LET ventry == At(elems, index)
        IN  IF index \in DOMAIN expectedEntries
            THEN IF nonZero(ventry, elem)
                 THEN Failure("error", "non zero #%d entry in model already exists in expectedEntries", index)
                 ELSE CheckModel(entries, expectedEntries, elems, elem, index - 1)
            ELSE CheckModel([entries EXCEPT ![index + 1] = ventry],
                            expectedEntries, elems, elem, index - 1)

\* lines 240-244: missing expected items become the zero value
ZeroFill(entries, expectedEntries, elem, from) ==
    [i \in DOMAIN entries |->
        IF i - 1 >= from /\ (i - 1) \notin DOMAIN expectedEntries
        THEN Zero(elem) ELSE entries[i]]

\* line 143: does the array type lack room for the highest expected index?
arrayTooShortOffByOne(maxLength, maxIndex) == maxLength < maxIndex
arrayTooShort(maxLength, maxIndex) == maxLength <= maxIndex

\* lines 153-160: number of expected entries of a slice
sliceNumEntriesNoModel(maxIndex, valid, modelLen) == maxIndex + 1
sliceNumEntries(maxIndex, valid, modelLen) ==
    IF valid /\ maxIndex + 1 < modelLen THEN modelLen ELSE maxIndex + 1

populateExpectedEntries(model, expectedEntries, order) ==
    LET maxIndex == SetMax(DOMAIN expectedEntries \cup {-1})
        isArray == model.kind = "Array"
        valid == model.ptr # "nilptr"        \* expectedModel.IsValid()
        maxLength == IF isArray THEN model.len ELSE -1
        numEntries ==
            IF isArray THEN maxLength
            ELSE sliceNumEntries(maxIndex, valid, Len(model.elems))
    IN  IF isArray /\ arrayTooShort(maxLength, maxIndex)
        THEN Failure("error", "array length is %d, so cannot have #%d expected index", maxIndex)
        ELSE
            LET stored == StoreEntries([i \in 1..numEntries |-> Invalid],
                                       expectedEntries, order, model.elem, isArray)
            IN  IF stored.status # "ok" THEN stored
                ELSE IF ~valid /\ ~isArray THEN stored      \* nil slice
                ELSE
                    LET checked ==
                            IF valid
                            THEN CheckModel(stored.expectedEntries, expectedEntries,
                                            model.elems, model.elem, Len(model.elems) - 1)
                            ELSE stored
                    IN  IF checked.status # "ok" THEN checked
                        ELSE IF isArray /\ valid THEN checked
                        ELSE Populated(ZeroFill(checked.expectedEntries, expectedEntries,
                                                model.elem,
                                                IF isArray THEN 0 ELSE Len(model.elems)))

\* newArray, then the error handling of Array() / Slice(): "kind" is the
\* reflect kind the constructor asks for.
newArray(kind, model, expectedEntries, order) ==
    IF model.kind # kind
    THEN Failure("usage", "usage: (ARRAY|&ARRAY, EXPECTED_ENTRIES)", 1)
         @@ [kind |-> kind, elem |-> model.elem, isPtr |-> FALSE, len |-> 0]
    ELSE populateExpectedEntries(model, expectedEntries, order)
         @@ [kind |-> kind, elem |-> model.elem, isPtr |-> model.ptr # "no", len |-> model.len]

NoArray ==
    Failure("none", "", 0) @@ [kind |-> "Array", elem |-> "int", isPtr |-> FALSE, len |-> 0]
NoModel == Model("Array", "int", "no", <<>>)

\* ------------------------------------------------ Context and dispatcher
\* a *ctxerr.Error: its message, the path it is located at and the set of
\* the texts or keys its summary names
ErrorSummary(message, path, summary) ==
    [Message |-> message, Path |-> path, Summary |-> summary]

Error(message, path) == ErrorSummary(message, path, {})

NoError == Error("", <<>>)                           \* a nil *ctxerr.Error
BooleanError == Error("BooleanError", <<>>)          \* ctxerr.BooleanError
ErrTooManyErrors == Error("too many errors", <<>>)

MaxErrorsSet == {-1, 1, 2}

Contexts ==
    {[BooleanError |-> b, MaxErrors |-> m, BeLax |-> FALSE, Path |-> <<>>, Errors |-> <<>>] :
        b \in BOOLEAN, m \in MaxErrorsSet}

NoContext ==
    [BooleanError |-> FALSE, MaxErrors |-> -1, BeLax |-> FALSE, Path |-> <<>>, Errors |-> <<>>]

\* what a call hands back: the error list of the context and the returned error
Outcome(errors, err) == [Errors |-> errors, ret |-> err]

\* ctx.AddArrayIndex(index)
AddArrayIndex(c, index) == [c EXCEPT !.Path = Append(c.Path, index)]

\* ctx.CollectError(err): the single accumulation point.  Boolean-only mode
\* hands the bare failure back; otherwise the error is appended and, once
\* the maximum is reached, the sentinel is appended and the comparison stops.
CollectError(c, err) ==
    IF err = NoError THEN Outcome(c.Errors, NoError)
    ELSE IF c.BooleanError \/ err = BooleanError THEN Outcome(c.Errors, BooleanError)
    ELSE LET errors == Append(c.Errors, [err EXCEPT !.Path = c.Path])
         IN  IF c.MaxErrors >= 0 /\ Len(errors) >= c.MaxErrors
             THEN Outcome(Append(errors, ErrTooManyErrors), err)
             ELSE Outcome(errors, NoError)

\* NotZero().Match and the comparison of two scalars
ValueMatches(got, expected) ==
    IF expected.k = "op" THEN got # Zero(got.k) ELSE got = expected

\* deepValueEqual(ctx, got, expected) on the items of an array or slice
deepValueEqual(c, got, expected) ==
    IF ValueMatches(got, expected) THEN Outcome(c.Errors, NoError)
    ELSE CollectError(c, Error(IF expected.k = "op" THEN "zero value" ELSE "values differ",
                               c.Path))

\* -------------------------------------------------- Array / Slice: Match
\* tdExpectedType.checkPtr then checkType: got must have the type of the
\* model, pointer included.
TypeOf(m) ==
    [kind |-> m.kind, elem |-> m.elem, isPtr |-> m.ptr # "no",
     len |-> IF m.kind = "Array" THEN m.len ELSE 0]

ExpectedType(a) ==
    [kind |-> a.kind, elem |-> a.elem, isPtr |-> a.isPtr,
     len |-> IF a.kind = "Array" THEN a.len ELSE 0]

checkType(a, got) ==
    IF TypeOf(got) = ExpectedType(a) THEN NoError ELSE Error("type mismatch", <<>>)

\* line 280: has got more items than expected?
gotTooLongOffByOne(a, got) == Len(got.elems) > Len(a.expectedEntries) + 1
gotTooLong(a, got) == Len(got.elems) > Len(a.expectedEntries)

\* lines 274-277: the loop ends on the first error deepValueEqual returns
neverStop(err) == FALSE
stopOn(err) == err # NoError

\* lines 260-289: the range over a.expectedEntries, from "index" on, then
\* the check of the items got has beyond them
RECURSIVE MatchEntries(_, _, _, _)
MatchEntries(a, c, got, index) ==
    IF index >= Len(a.expectedEntries)
    THEN IF gotTooLong(a, got)
         THEN IF c.BooleanError THEN Outcome(c.Errors, BooleanError)
              ELSE CollectError(AddArrayIndex(c, Len(a.expectedEntries)),
                                Error("got value out of range", <<>>))
         ELSE Outcome(c.Errors, NoError)
    ELSE
        LET curCtx == AddArrayIndex(c, index)
        IN  IF index >= Len(got.elems)
            THEN IF c.BooleanError THEN Outcome(c.Errors, BooleanError)
                 ELSE CollectError(curCtx, Error("expected value out of range", <<>>))
            ELSE
                LET r == deepValueEqual(curCtx, At(got.elems, index), At(a.expectedEntries, index))
                IN  IF stopOn(r.ret) THEN r
                    ELSE MatchEntries(a, [c EXCEPT !.Errors = r.Errors], got, index + 1)

\* (a *tdArray) Match(ctx, got): the formatting done on the way; the
\* errors of lines 263-270 and 281-287 are built when not in boolean-only
\* mode
tdArrayRenders(a, c, got) ==
    IF c.BooleanError THEN {}
    ELSE IF MatchEntries(a, c, got, 0).Errors # <<>> \/ checkType(a, got) # NoError
    THEN {"message"} ELSE {}

\* (a *tdArray) Match(ctx, got)
tdArrayMatch(a, c, got) ==
    LET err == checkType(a, got)
    IN  IF err # NoError THEN CollectError(c, err)
        ELSE MatchEntries(a, c, got, 0)

MaxGotLen == 3      \* longest got array/slice

\* the got values tried on operator a: arrays/slices of the items type of
\* every length, behind a pointer or not
GotValues(a) ==
    {Model(a.kind, a.elem, ptr, elems) :
        ptr \in {"no", "ptr"},
        elems \in SeqsUpTo(ElemValues(a.elem), MaxGotLen)}
    \cup {Model(a.kind, elem, IF a.isPtr THEN "ptr" ELSE "no",
                [i \in 1..Len(a.expectedEntries) |-> Zero(elem)]) :
            elem \in ElemKinds \ {a.elem}}

\* ------------------------------------------------------- nothing built
NoCaptures == [type |-> "invalid", elems |-> <<>>]
NoRe == [status |-> "none", Func |-> "", re |-> <<>>, captures |-> NoCaptures, numMatches |-> 0]

\* ------------------------------------------------ Array / Slice: actions
\* no operator built yet: a behaviour follows one operator
Idle == arr.status = "none" /\ re.status = "none" /\ js.status = "none"

\* Array(model, expectedEntries)
Array ==
    /\ Idle
    /\ \E model \in TypedModels, expectedEntries \in ArrayEntriesSet :
        \E order \in Orders(DOMAIN expectedEntries) :
            /\ arrModel' = model
            /\ arrEntries' = expectedEntries
            /\ arr' = newArray("Array", model, expectedEntries, order)
    /\ UNCHANGED <<matchVars, re, allOperators, tVars, jsVars>>

\* Slice(model, expectedEntries)
Slice ==
    /\ Idle
    /\ \E model \in TypedModels, expectedEntries \in ArrayEntriesSet :
        \E order \in Orders(DOMAIN expectedEntries) :
            /\ arrModel' = model
            /\ arrEntries' = expectedEntries
            /\ arr' = newArray("Slice", model, expectedEntries, order)
    /\ UNCHANGED <<matchVars, re, allOperators, tVars, jsVars>>

\* one Match of the built operator against a got value
ArrayMatch ==
    /\ arr.status = "ok"
    /\ lastRet = "none"
    /\ \E c \in Contexts, g \in GotValues(arr) :
        LET r == tdArrayMatch(arr, c, g)
        IN  /\ lastIn' = c
            /\ lastCtx' = [c EXCEPT !.Errors = r.Errors]
            /\ lastGot' = g
            /\ lastRet' = r.ret.Message
    /\ UNCHANGED <<arrVars, re, dispatched, allOperators, tVars, jsVars>>

\* ------------------------------------------------------- Re / ReAll
\* A string or a []byte is [t |-> "string" or "bytes", s |-> its characters].
Alphabet == {"a", "b"}
MaxStrLen == 3      \* longest got string
MaxPatLen == 2      \* most atoms in a pattern
MaxCaptures == 2    \* most items in a captures expectation

Str(s) == [t |-> "string", s |-> s]
Bytes(s) == [t |-> "bytes", s |-> s]
\* the Go conversion string(match)
string(b) == [t |-> "string", s |-> b.s]

\* A compiled pattern is a sequence of atoms, each matching one character of
\* "chars", in a capturing group when "cap": <<Atom({"a"}, TRUE),
\* Atom({"b"}, FALSE)>> is (a)b.
Atom(chars, cap) == [chars |-> chars, cap |-> cap]
Atoms == {Atom({"a"}, TRUE), Atom({"a", "b"}, TRUE), Atom({"b"}, FALSE)}
Patterns == UNION {[1..l -> Atoms] : l \in 1..MaxPatLen}

\* does pattern p match text at position pos (from 1)?
MatchAt(p, text, pos) ==
    /\ pos + Len(p) - 1 <= Len(text.s)
    /\ \A i \in 1..Len(p) : text.s[pos + i - 1] \in p[i].chars

RECURSIVE Groups(_, _, _, _)
Groups(p, text, pos, i) ==
    IF i > Len(p) THEN <<>>
    ELSE (IF p[i].cap THEN <<[text EXCEPT !.s = <<text.s[pos + i - 1]>>]>> ELSE <<>>)
         \o Groups(p, text, pos, i + 1)

\* the whole match, then the groups
Submatch(p, text, pos) ==
    <<[text EXCEPT !.s = SubSeq(text.s, pos, pos + Len(p) - 1)]>> \o Groups(p, text, pos, 1)

\* regexp.FindAllSubmatch / FindAllStringSubmatch: the successive
\* non-overlapping matches from pos on, at most n of them when n >= 0
RECURSIVE FindAllFrom(_, _, _, _)
FindAllFrom(p, text, pos, n) ==
    IF n = 0 \/ pos + Len(p) - 1 > Len(text.s) THEN <<>>
    ELSE IF MatchAt(p, text, pos)
         THEN <<Submatch(p, text, pos)>> \o FindAllFrom(p, text, pos + Len(p), n - 1)
         ELSE FindAllFrom(p, text, pos + 1, n)

FindAllSubmatch(p, text, n) == FindAllFrom(p, text, 1, n)

\* regexp.Match / MatchString
MatchString(p, text) == \E pos \in 1..Len(text.s) : MatchAt(p, text, pos)

\* The captures expectation of an operator: none (NoCaptures), a []string,
\* a []interface{} or the operator Bag(items...).
CaptureItems == {Str(<<c>>) : c \in Alphabet}
CapturesSet ==
    {[type |-> t, elems |-> e] :
        t \in {"[]string", "[]interface{}", "Bag"},
        e \in SeqsUpTo(CaptureItems, MaxCaptures)}

\* newRe(regIf, capture...): regIf is [type |-> "string" or "*regexp.Regexp",
\* re |-> pattern] or a value of another type; capture holds captures
\* expectations, NoCaptures standing for a nil one.
newRe(func, regIf, capture) ==
    IF Len(capture) > 1
    THEN [NoRe EXCEPT !.status = "error", !.Func = func]
    ELSE IF regIf.type \notin {"string", "*regexp.Regexp"}
    THEN [NoRe EXCEPT !.status = "error", !.Func = func]
    ELSE [status |-> "ok", Func |-> func, re |-> regIf.re,
          captures |-> IF Len(capture) = 1 THEN capture[1] ELSE NoCaptures,
          numMatches |-> 0]

\* line 87: Re asks for one match
ReSetAllMatches(r) == [r EXCEPT !.numMatches = -1]
ReSetNumMatches(r) == [r EXCEPT !.numMatches = 1]

\* line 119: ReAll asks for every match
ReAllSetNumMatches(r) == [r EXCEPT !.numMatches = -1]

\* (r *tdRe) needCaptures()
needCaptures(r) == r.captures.type # "invalid"

\* ctx.ResetPath("(" + path + " =~ " + r.String() + ")")
ResetPath(c) == [c EXCEPT !.Path = <<"=~">>]

IsPermutation(s, t) ==
    /\ Len(s) = Len(t)
    /\ \E f \in [DOMAIN s -> DOMAIN t] :
        /\ \A i, j \in DOMAIN s : f[i] = f[j] => i = j
        /\ \A i \in DOMAIN s : s[i] = t[f[i]]

\* deepValueEqual(ctx, got, expected) on ordered sequences: an operator
\* decides by itself; else types, then items in index order, then lengths.
RECURSIVE deepValueEqualItems(_, _, _, _)
deepValueEqualItems(c, got, expected, index) ==
    IF index >= Len(got.elems) \/ index >= Len(expected.elems)
    THEN IF Len(got.elems) # Len(expected.elems)
         THEN CollectError(AddArrayIndex(c, index), Error("value out of range", <<>>))
         ELSE Outcome(c.Errors, NoError)
    ELSE
        LET r == IF At(got.elems, index) = At(expected.elems, index)
                 THEN Outcome(c.Errors, NoError)
                 ELSE CollectError(AddArrayIndex(c, index), Error("values differ", <<>>))
        IN  IF r.ret # NoError THEN r
            ELSE deepValueEqualItems([c EXCEPT !.Errors = r.Errors], got, expected, index + 1)

deepValueEqualSeq(c, got, expected) ==
    IF expected.type = "Bag"
    THEN IF IsPermutation(got.elems, expected.elems) THEN Outcome(c.Errors, NoError)
         ELSE CollectError(c, Error("comparing %% as a Bag", <<>>))
    ELSE IF got.type # expected.type /\ ~c.BeLax
    THEN CollectError(c, Error("type mismatch", <<>>))
    ELSE deepValueEqualItems(c, got, expected, 0)

\* a Match outcome that also tells the deepValueEqual calls made
Dispatch(c, got, expected) ==
    deepValueEqualSeq(c, got, expected)
    @@ [calls |-> <<[got |-> got, expected |-> expected, BeLax |-> c.BeLax]>>]

NoDispatch(outcome) == outcome @@ [calls |-> <<>>]

\* (r *tdRe) doesNotMatch(ctx, got)
doesNotMatchUnlessBoolean(r, c, got) ==
    IF c.BooleanError THEN Outcome(c.Errors, NoError)
    ELSE CollectError(c, Error("does not match Regexp", <<>>))

doesNotMatch(r, c, got) ==
    IF c.BooleanError THEN Outcome(c.Errors, BooleanError)
    ELSE CollectError(c, Error("does not match Regexp", <<>>))

\* (r *tdRe) matchBool(ctx, got, result)
matchBool(r, c, got, result) ==
    IF result THEN Outcome(c.Errors, NoError) ELSE doesNotMatch(r, c, got)

\* (r *tdRe) matchCaptures(ctx, captures)
matchCaptures(r, c, captures) == Dispatch(ResetPath(c), captures, r.captures)

\* lines 142-146, 151-155: groups of every match but the whole match,
\* converted to strings
RECURSIVE ByteCaptures(_)
ByteCaptures(result) ==
    IF result = <<>> THEN <<>>
    ELSE [i \in DOMAIN Tail(Head(result)) |-> string(Tail(Head(result))[i])]
         \o ByteCaptures(Tail(result))

\* lines 172-176, 181-183: groups of every match but the whole match
RECURSIVE StringCapturesWhole(_)
StringCapturesWhole(result) ==
    IF result = <<>> THEN <<>>
    ELSE Head(result) \o StringCapturesWhole(Tail(result))

RECURSIVE StringCaptures(_)
StringCaptures(result) ==
    IF result = <<>> THEN <<>>
    ELSE Tail(Head(result)) \o StringCaptures(Tail(result))

\* the Go type of the captures handed over: []interface{} when the
\* expectation is one, else []string
CapturesType(r) ==
    IF r.captures.type = "[]interface{}" THEN "[]interface{}" ELSE "[]string"

\* lines 128 and 160: no match found
noResultNever(result) == FALSE
noResult(result) == Len(result) = 0

\* (r *tdRe) matchByteCaptures(ctx, got, result)
matchByteCaptures(r, c, got, result) ==
    IF noResult(result) THEN NoDispatch(doesNotMatch(r, c, got))
    ELSE matchCaptures(r, c, [type |-> CapturesType(r), elems |-> ByteCaptures(result)])

\* (r *tdRe) matchStringCaptures(ctx, got, result)
matchStringCaptures(r, c, got, result) ==
    IF noResult(result) THEN NoDispatch(doesNotMatch(r, c, got))
    ELSE matchCaptures(r, c, [type |-> CapturesType(r), elems |-> StringCaptures(result)])

\* A got value is [kind |-> ..., text |-> ...]: a "string", a "[]byte",
\* another "slice", an "error" or a "fmt.Stringer" giving text, or "other".
Texts(t) == {[t |-> t, s |-> s] : s \in SeqsUpTo(Alphabet, MaxStrLen)}
ReGotValues ==
    {[kind |-> k, text |-> x] : k \in {"string", "error", "fmt.Stringer"}, x \in Texts("string")}
    \cup {[kind |-> "[]byte", text |-> x] : x \in Texts("bytes")}
    \cup {[kind |-> k, text |-> Str(<<>>)] : k \in {"slice", "other"}}

\* (r *tdRe) Match(ctx, got)
tdReMatch(r, c, got) ==
    IF got.kind = "[]byte"
    THEN IF needCaptures(r)
         THEN matchByteCaptures(r, c, got.text, FindAllSubmatch(r.re, got.text, r.numMatches))
         ELSE NoDispatch(matchBool(r, c, got.text, MatchString(r.re, got.text)))
    ELSE IF got.kind = "slice"
    THEN NoDispatch(IF c.BooleanError THEN Outcome(c.Errors, BooleanError)
                    ELSE CollectError(c, Error("bad slice type", <<>>)))
    ELSE IF got.kind = "other"
    THEN NoDispatch(IF c.BooleanError THEN Outcome(c.Errors, BooleanError)
                    ELSE CollectError(c, Error("bad type", <<>>)))
    ELSE IF needCaptures(r)
         THEN matchStringCaptures(r, c, got.text, FindAllSubmatch(r.re, got.text, r.numMatches))
         ELSE NoDispatch(matchBool(r, c, got.text, MatchString(r.re, got.text)))

\* The string formatting work of a Match: what it renders, among the path,
\* the description of the operator and an error message.
\* matchCaptures, line 189: "(" + ctx.Path.String() + " =~ " + r.String() + ")"
matchCapturesRenders(r, c) == {"path", "operator"}

\* doesNotMatch, lines 201-208, and the "bad slice type" and "bad type"
\* errors of Match, lines 226-233 and 250-258
errorRenders(r, c) == IF c.BooleanError THEN {} ELSE {"message"}

\* (r *tdRe) Match(ctx, got): the formatting done on the way
tdReRenders(r, c, got) ==
    IF got.kind \in {"slice", "other"} THEN errorRenders(r, c)
    ELSE IF needCaptures(r)
    THEN IF noResult(FindAllSubmatch(r.re, got.text, r.numMatches))
         THEN errorRenders(r, c)
         ELSE matchCapturesRenders(r, c)
              \cup (IF tdReMatch(r, c, got).Errors # <<>> THEN {"message"} ELSE {})
    ELSE IF MatchString(r.re, got.text) THEN {} ELSE errorRenders(r, c)

RegIfs ==
    {[type |-> t, re |-> p] : t \in {"string", "*regexp.Regexp"}, p \in Patterns}
    \cup {[type |-> "int", re |-> <<>>]}

\* Re(reg, capture...)
Re ==
    /\ Idle
    /\ \E reg \in RegIfs, capture \in SeqsUpTo(CapturesSet \cup {NoCaptures}, 1)
                                     \cup {<<NoCaptures, NoCaptures>>} :
        LET r == newRe("Re", reg, capture)
        IN  re' = IF r.status = "ok" THEN ReSetNumMatches(r) ELSE r
    /\ UNCHANGED <<arrVars, matchVars, allOperators, tVars, jsVars>>

\* ReAll(reg, capture)
ReAll ==
    /\ Idle
    /\ \E reg \in RegIfs, capture \in CapturesSet \cup {NoCaptures} :
        LET r == newRe("ReAll", reg, <<capture>>)
        IN  re' = IF r.status = "ok" THEN ReAllSetNumMatches(r) ELSE r
    /\ UNCHANGED <<arrVars, matchVars, allOperators, tVars, jsVars>>

\* one Match of the built operator against a got value
ReMatch ==
    /\ re.status = "ok"
    /\ lastRet = "none"
    /\ \E c \in Contexts, g \in ReGotValues :
        LET r == tdReMatch(re, c, g)
        IN  /\ lastIn' = c
            /\ lastCtx' = [c EXCEPT !.Errors = r.Errors]
            /\ lastGot' = g
            /\ lastRet' = r.ret.Message
            /\ dispatched' = r.calls
    /\ UNCHANGED <<arrVars, re, allOperators, tVars, jsVars>>

\* ----------------------------------------- JSON / SubJSONOf / SuperJSONOf
\* A value of the JSON operators is [k, v, name, of]:
\*   "op"           a TestDeep operator, v tells which
\*   "tag"          the operator Tag(name, operator v)
\*   "placeholder"  a *tdJSONPlaceholder around the operator of kind "of",
\*                  $name when name # "", else $num
\*   "embedded"     a *tdJSONEmbedded around the operator called name
\*   "int" "float64" "string" "struct" "map" "nil"   plain Go values
\*   "nested"       a Go value with a TestDeep operator inside
\*   "chan"         a Go value encoding/json cannot encode
JV(k, v, name, num, of) == [k |-> k, v |-> v, name |-> name, num |-> num, of |-> of]
Op(v) == JV("op", v, "", 0, "")
Tag(name, v) == JV("tag", v, name, 0, "")
Raw(k, v) == JV(k, v, "", 0, "")
StringV(str) == JV("string", 0, str, 0, "")
NoValue == Raw("nil", 0)

MaxParams == 2      \* most params of a JSON() call
MaxArgs == 4        \* most parameters of an operator call embedded in JSON

TagNames == {"x", "y"}

ParamValues ==
    {Op(1), Tag("x", 1), Tag("x", 2), Tag("y", 1),
     Raw("int", 1), Raw("float64", 1), Raw("struct", 1), Raw("nil", 0),
     Raw("nested", 1), Raw("chan", 1)}

ParamLists == SeqsUpTo(ParamValues, MaxParams)

\* encoding/json.Marshal: the error, "" when none, and the JSON text
MarshalError(p) ==
    IF p.k = "nested" THEN "OperatorNotJSONMarshallableError"
    ELSE IF p.k = "chan" THEN "json: unsupported type"
    ELSE ""

Marshal(p) ==
    IF p.k \in {"int", "float64"} THEN [json |-> "number", v |-> p.v, name |-> ""]
    ELSE IF p.k \in {"struct", "map"} THEN [json |-> "object", v |-> p.v, name |-> ""]
    ELSE IF p.k = "string" THEN [json |-> "string", v |-> 0, name |-> p.name]
    ELSE IF p.k = "slice" THEN [json |-> "array", v |-> p.v, name |-> ""]
    ELSE [json |-> "null", v |-> 0, name |-> ""]

\* encoding/json.Unmarshal into an interface{}
Unmarshal(b) ==
    IF b.json = "number" THEN Raw("float64", b.v)
    ELSE IF b.json = "object" THEN Raw("map", b.v)
    ELSE IF b.json = "string" THEN StringV(b.name)
    ELSE IF b.json = "array" THEN Raw("slice", b.v)
    ELSE Raw("nil", 0)

\* lines 147-150 and 153-156: the placeholders
namedPlaceholder(op) == JV("placeholder", op.v, op.name, 0, op.k)
numPlaceholder(op, i) == JV("placeholder", op.v, "", i + 1, op.k)

\* the operator inside a placeholder
Unwrap(p) == JV(p.of, p.v, IF p.of = "tag" THEN p.name ELSE "", 0, "")

\* line 141: byTag[op.tag] != nil
tagNeverUsed(byTag, tag) == FALSE
tagAlreadyUsed(byTag, tag) == tag \in DOMAIN byTag

\* line 164: types.AsOperatorNotJSONMarshallableError(err)
neverOperatorNotJSONMarshallable(err) == FALSE
isOperatorNotJSONMarshallable(err) == err = "OperatorNotJSONMarshallableError"

ParamsDone(status, msg, index, params, byTag) ==
    [status |-> status, msg |-> msg, index |-> index, params |-> params, byTag |-> byTag]

\* lines 138-173: the loop on params, from Go index i on
RECURSIVE substituteParams(_, _, _)
substituteParams(params, byTag, i) ==
    IF i >= Len(params) THEN ParamsDone("ok", "", 0, params, byTag)
    ELSE
        LET op == At(params, i)
        IN  IF op.k = "tag"
            THEN IF tagAlreadyUsed(byTag, op.name)
                 THEN ParamsDone("panic", "%s(): 2 params have the same tag \"%s\"", i + 1,
                                 params, byTag)
                 ELSE substituteParams(params, byTag @@ (op.name :> namedPlaceholder(op)), i + 1)
            ELSE IF op.k = "op"
            THEN substituteParams([params EXCEPT ![i + 1] = numPlaceholder(op, i)], byTag, i + 1)
            ELSE
                LET err == MarshalError(op)
                IN  IF err # ""
                    THEN IF isOperatorNotJSONMarshallable(err)
                         THEN substituteParams(params, byTag, i + 1)
                         ELSE ParamsDone("panic",
                                         "%s(): param #%d of type %T cannot be JSON marshalled",
                                         i + 1, params, byTag)
                    ELSE substituteParams([params EXCEPT ![i + 1] = Unmarshal(Marshal(op))],
                                          byTag, i + 1)

\* forbiddenOpsInJSON
forbiddenOpsInJSON ==
    [n \in {"Array", "Cap", "Catch", "Code", "Delay", "Isa", "JSON", "Lax", "Map",
            "PPtr", "Ptr", "SStruct", "Shallow", "Slice", "Smuggle", "String",
            "SubJSONOf", "SuperJSONOf", "Struct", "Tag", "TruncTime"} |->
        CASE n \in {"Array", "Slice"} -> "literal []"
          [] n = "JSON" -> "literal JSON"
          [] n = "Map" -> "literal {}"
          [] n = "String" -> "literal \"\""
          [] n = "SubJSONOf" -> "SubMapOf operator"
          [] n = "SuperJSONOf" -> "SuperMapOf operator"
          [] OTHER -> ""]

\* The constructors of the registry that can be embedded, as reflect sees
\* them: number of declared parameters, variadic or not, and the type of
\* each parameter.
Signature(numIn, variadic, in) == [NumIn |-> numIn, IsVariadic |-> variadic, In |-> in]
Signatures ==
    [n \in {"Between", "N", "Re", "ReAll", "SubMapOf", "SuperMapOf", "All", "Gt",
            "HasPrefix", "Empty"} |->
        CASE n = "Between" -> Signature(3, TRUE, <<"interface", "interface", "[]BoundsKind">>)
          [] n \in {"N", "Re"} -> Signature(2, TRUE, <<"interface", "[]interface">>)
          [] n = "ReAll" -> Signature(2, FALSE, <<"interface", "interface">>)
          [] n \in {"SubMapOf", "SuperMapOf"} -> Signature(2, FALSE, <<"interface", "MapEntries">>)
          [] n = "All" -> Signature(1, TRUE, <<"[]interface">>)
          [] n = "Gt" -> Signature(1, FALSE, <<"interface">>)
          [] n = "HasPrefix" -> Signature(1, FALSE, <<"string">>)
          [] OTHER -> Signature(0, FALSE, <<>>)]

\* allOperators, the registry, holds every operator; it is filled outside
\* of the files modelled, so the model also tries it without some names.
FullRegistry == DOMAIN Signatures \cup DOMAIN forbiddenOpsInJSON
Registries == {FullRegistry} \cup {FullRegistry \ {n} : n \in {"Cap", "Array", "Gt"}}

NoErr == [fmt |-> "", name |-> "", hint |-> ""]
Errorf(fmt, name, hint) == [fmt |-> fmt, name |-> name, hint |-> hint]

\* lines 192-203: the names resolveOp rejects
rejectNameBlockedFirst(registry, name) ==
    IF name \in DOMAIN forbiddenOpsInJSON
    THEN IF forbiddenOpsInJSON[name] = ""
         THEN Errorf("%s() is not usable in JSON()", name, "")
         ELSE Errorf("%s() is not usable in JSON(), use %s instead", name,
                     forbiddenOpsInJSON[name])
    ELSE IF name \notin registry THEN Errorf("unknown operator %s()", name, "")
    ELSE NoErr

rejectName(registry, name) ==
    IF name \notin registry THEN Errorf("unknown operator %s()", name, "")
    ELSE IF name \in DOMAIN forbiddenOpsInJSON
    THEN IF forbiddenOpsInJSON[name] = ""
         THEN Errorf("%s() is not usable in JSON()", name, "")
         ELSE Errorf("%s() is not usable in JSON(), use %s instead", name,
                     forbiddenOpsInJSON[name])
    ELSE NoErr

\* lines 215-226: the 3rd parameter of Between, "" when it is not accepted
boundsKindSwapped(p) ==
    IF p.k # "string" THEN ""
    ELSE CASE p.name \in {"[]", "BoundsInIn"} -> "BoundsInIn"
           [] p.name \in {"[[", "BoundsInOut"} -> "BoundsOutIn"
           [] p.name \in {"]]", "BoundsOutIn"} -> "BoundsInOut"
           [] p.name \in {"][", "BoundsOutOut"} -> "BoundsOutOut"
           [] OTHER -> ""

boundsKind(p) ==
    IF p.k # "string" THEN ""
    ELSE CASE p.name \in {"[]", "BoundsInIn"} -> "BoundsInIn"
           [] p.name \in {"[[", "BoundsInOut"} -> "BoundsInOut"
           [] p.name \in {"]]", "BoundsOutIn"} -> "BoundsOutIn"
           [] p.name \in {"][", "BoundsOutOut"} -> "BoundsOutOut"
           [] OTHER -> ""

\* lines 211-244: least and most parameters, max = -1 for no limit, and
\* whether a nil MapEntries is added
arityNoSpecialCase(name, tfn) ==
    [min |-> tfn.NumIn, max |-> IF tfn.IsVariadic THEN -1 ELSE tfn.NumIn,
     addNilParam |-> FALSE]

arity(name, tfn) ==
    CASE name = "Between" -> [min |-> 2, max |-> 3, addNilParam |-> FALSE]
      [] name \in {"N", "Re"} -> [min |-> 1, max |-> 2, addNilParam |-> FALSE]
      [] name \in {"SubMapOf", "SuperMapOf"} -> [min |-> 1, max |-> 1, addNilParam |-> TRUE]
      [] OTHER -> [min |-> tfn.NumIn,
                   max |-> IF tfn.IsVariadic THEN -1 ELSE tfn.NumIn,
                   addNilParam |-> FALSE]

\* lines 245-259
arityError(name, min, max, numParams) ==
    IF numParams < min \/ (max >= 0 /\ numParams > max)
    THEN IF max < 0 THEN Errorf("%s() requires at least one parameter", name, "")
         ELSE IF max = 0 THEN Errorf("%s() requires no parameters", name, "")
         ELSE IF min = max
         THEN IF min = 1 THEN Errorf("%s() requires only one parameter", name, "")
              ELSE Errorf("%s() requires %d parameters", name, "")
         ELSE Errorf("%s() requires %d or %d parameters", name, "")
    ELSE NoErr

\* lines 261-287: the parameters handed to the constructor, and the first
\* one of a type the constructor does not take (0 when none)
callParams(params, addNilParam) ==
    IF Len(params) > 0 /\ addNilParam THEN Append(params, Raw("MapEntries", 0)) ELSE params

badParam(in, tfn) ==
    LET numCheck == IF tfn.IsVariadic THEN tfn.NumIn - 1 ELSE Len(in)
        bad == {i \in 1..numCheck : tfn.In[i] # "interface" /\ in[i].k # tfn.In[i]}
    IN  IF Len(in) = 0 \/ bad = {} THEN 0 ELSE CHOOSE i \in bad : \A j \in bad : i <= j

Resolved(op, err, called) == [op |-> op, err |-> err, called |-> called]

\* Between(from, to, bounds...): the bounds of the operator built,
\* BoundsInIn when none is given
Between(in) == IF Len(in) >= 3 THEN in[3].k ELSE "BoundsInIn"

\* does a Between of these bounds accept from, and to?
boundsInclusive(bounds) ==
    [from |-> bounds \in {"BoundsInIn", "BoundsInOut"},
     to |-> bounds \in {"BoundsInIn", "BoundsOutIn"}]

\* vfn.Call(in): the operator the constructor called jop.Name builds
Call(name, in) == JV("embedded", 0, name, 0, IF name = "Between" THEN Between(in) ELSE "")

\* lines 289-306: the constructor is called under recover(); panicArg is
\* what it panics with, "" when it returns the operator
callErrorDropped(name, in, panicArg) ==
    IF panicArg = "" THEN Resolved(Call(name, in), NoErr, TRUE)
    ELSE Resolved(NoValue, NoErr, TRUE)

callRecovered(name, in, panicArg) ==
    IF panicArg = "" THEN Resolved(Call(name, in), NoErr, TRUE)
    ELSE Resolved(NoValue, Errorf("%s() %v", name, panicArg), TRUE)

\* the closure resolveOp returns, applied to the operator call jop;
\* panicArg is what the constructor, once called, panics with
resolveOp(jop, registry, panicArg) ==
    LET rejected == rejectName(registry, jop.Name)
    IN  IF rejected # NoErr THEN Resolved(NoValue, rejected, FALSE)
        ELSE
            LET tfn == Signatures[jop.Name]
                bad3rd == jop.Name = "Between" /\ Len(jop.Params) = 3
                          /\ boundsKind(jop.Params[3]) = ""
                params == IF jop.Name = "Between" /\ Len(jop.Params) = 3
                          THEN [jop.Params EXCEPT ![3] = Raw(boundsKind(jop.Params[3]), 0)]
                          ELSE jop.Params
                a == arity(jop.Name, tfn)
                wrongCount == arityError(jop.Name, a.min, a.max, Len(params))
                in == callParams(params, a.addNilParam)
            IN  IF bad3rd
                THEN Resolved(NoValue, Errorf("Between() bad 3rd parameter, use \"[]\", \"[[\", \"]]\" or \"][\"",
                                              jop.Name, ""), FALSE)
                ELSE IF wrongCount # NoErr THEN Resolved(NoValue, wrongCount, FALSE)
                ELSE IF badParam(in, tfn) # 0
                THEN Resolved(NoValue,
                              Errorf("%s() bad #%d parameter type: %s required but %s received",
                                     jop.Name, ""), FALSE)
                ELSE callRecovered(jop.Name, in, panicArg)

\* The JSON text, as the parser sees it: the placeholder $n, the
\* placeholder $name, the operator call Name(Params...) or a literal.
Doc(tok, n, name, params) == [tok |-> tok, n |-> n, Name |-> name, Params |-> params]

\* json.Parse with the placeholders and resolveOp
Parse(doc, placeholders, placeholdersByName, registry, panicArg) ==
    CASE doc.tok = "num" ->
            IF doc.n = 0 \/ doc.n > Len(placeholders)
            THEN Resolved(NoValue, Errorf("bad numeric placeholder", "", ""), FALSE)
            ELSE Resolved(placeholders[doc.n], NoErr, FALSE)
      [] doc.tok = "name" ->
            IF doc.Name \notin DOMAIN placeholdersByName
            THEN Resolved(NoValue, Errorf("unknown placeholder", doc.Name, ""), FALSE)
            ELSE Resolved(placeholdersByName[doc.Name], NoErr, FALSE)
      [] doc.tok = "call" -> resolveOp(doc, registry, panicArg)
      [] OTHER -> Resolved(doc.Params[1], NoErr, FALSE)

Unmarshaled(status, msg, index, expected, done, parsed) ==
    [status |-> status, msg |-> msg, index |-> index, expected |-> expected,
     params |-> done.params, byTag |-> done.byTag, err |-> parsed.err,
     called |-> parsed.called]

\* (u tdJSONUnmarshaler) unmarshal(expectedJSON, params); expectedJSON is
\* [type |-> how the text is given, doc |-> the text]
unmarshal(expectedJSON, params, registry, panicArg) ==
    LET nothing == ParamsDone("", "", 0, params, <<>>)
        unparsed == Resolved(NoValue, NoErr, FALSE)
    IN  IF expectedJSON.type = "missing.json"
        THEN Unmarshaled("panic", "%s(): JSON file %s cannot be read: %s", 0, NoValue,
                         nothing, unparsed)
        ELSE IF expectedJSON.type = "failing io.Reader"
        THEN Unmarshaled("panic", "%s(): JSON read error: %s", 0, NoValue, nothing, unparsed)
        ELSE IF expectedJSON.type \notin {"string", "file.json", "[]byte", "io.Reader"}
        THEN Unmarshaled("panic", "usage: (STRING_JSON|STRING_FILENAME|[]byte|io.Reader, ...)",
                         0, NoValue, nothing, unparsed)
        ELSE
            LET done == substituteParams(params, <<>>, 0)
            IN  IF done.status # "ok"
                THEN Unmarshaled(done.status, done.msg, done.index, NoValue, done, unparsed)
                ELSE
                    LET final == Parse(expectedJSON.doc, done.params, done.byTag,
                                       registry, panicArg)
                    IN  IF final.err # NoErr
                        THEN Unmarshaled("panic", "%s(): JSON unmarshal error: %s", 0,
                                         NoValue, done, final)
                        ELSE Unmarshaled("ok", "", 0, final.op, done, final)

\* lines 749-752 and 904-907: SubJSONOf and SuperJSONOf take JSON objects
onlyObjects(u) ==
    IF u.status = "ok" /\ u.expected.k # "map"
    THEN [u EXCEPT !.status = "panic", !.msg = "%s() only accepts JSON objects {...}"]
    ELSE u

\* A JSON object (a map[string]interface{}, and a struct before it is
\* encoded) has the keys "a" and "b", each absent or of value 1 or 2; its v
\* is the value under "a" plus 3 times the value under "b", 0 for absent:
\* 0 is {}, 1 is {"a": 1}, 5 is {"a": 2, "b": 1}.
MapKeys == <<"a", "b">>
MapCodes == 0..8
KeyValue(code, key) == IF key = "a" THEN code % 3 ELSE code \div 3
Keys(code) == {MapKeys[i] : i \in {j \in DOMAIN MapKeys : KeyValue(code, MapKeys[j]) # 0}}

\* the texts and parameters tried
BoundsTokens ==
    {"[]", "BoundsInIn", "[[", "BoundsInOut", "]]", "BoundsOutIn", "][", "BoundsOutOut", "()"}
FirstArgs == {Raw("float64", 1), StringV("a")}
ThirdArgs == {StringV(t) : t \in BoundsTokens} \cup {Raw("float64", 1)}
ArgLists ==
    {a \in SeqsUpTo(FirstArgs \cup ThirdArgs, MaxArgs) :
        \A i \in DOMAIN a : IF i = 3 THEN a[i] \in ThirdArgs ELSE a[i] \in FirstArgs}
CallNames ==
    {"Between", "N", "Re", "SubMapOf", "All", "Gt", "HasPrefix", "Empty",
     "Array", "Cap", "NoSuchOperator"}
Docs ==
    {Doc("num", n, "", <<>>) : n \in 0..(MaxParams + 1)}
    \cup {Doc("name", 0, x, <<>>) : x \in TagNames}
    \cup {Doc("lit", 0, "", <<v>>) : v \in {Raw("map", 1), Raw("float64", 1)}}
    \cup {Doc("lit", 0, "", <<Raw("map", code)>>) : code \in MapCodes}
    \cup {Doc("call", 0, n, a) : n \in CallNames, a \in ArgLists}
TextTypes ==
    {"string", "file.json", "[]byte", "io.Reader", "missing.json", "failing io.Reader", "int"}

\* the calls of the three constructors tried: operator calls in the text
\* come without params, texts not given as a string are literals, the
\* objects other than {"a": 1} come as a string without params
PanicArgs == {"", "usage: %s(...)", "runtime error"}

JSONCalls ==
    {c \in [type : TextTypes, doc : Docs, params : ParamLists, panicArg : PanicArgs] :
        /\ IF c.doc.tok = "call" THEN c.params = <<>> ELSE c.panicArg = ""
        /\ c.type # "string" => c.doc.tok = "lit"
        /\ (c.doc.tok = "lit" /\ c.doc.Params[1] \notin {Raw("map", 1), Raw("float64", 1)})
             => (c.type = "string" /\ c.params = <<>>)}

NoJSON ==
    [Func |-> ""] @@
    Unmarshaled("none", "", 0, NoValue, ParamsDone("", "", 0, <<>>, <<>>),
                Resolved(NoValue, NoErr, FALSE))
NoCall == [type |-> "string", doc |-> Doc("lit", 0, "", <<NoValue>>), params |-> <<>>,
           panicArg |-> ""]

\* JSON(expectedJSON, params...)
JSON ==
    /\ Idle
    /\ \E c \in JSONCalls :
        /\ jsCall' = c
        /\ js' = [Func |-> "JSON"] @@ unmarshal(c, c.params, allOperators, c.panicArg)
    /\ UNCHANGED <<arrVars, re, matchVars, allOperators, tVars>>

\* SubJSONOf(expectedJSON, params...)
SubJSONOf ==
    /\ Idle
    /\ \E c \in JSONCalls :
        /\ jsCall' = c
        /\ js' = [Func |-> "SubJSONOf"]
                 @@ onlyObjects(unmarshal(c, c.params, allOperators, c.panicArg))
    /\ UNCHANGED <<arrVars, re, matchVars, allOperators, tVars>>

\* SuperJSONOf(expectedJSON, params...)
SuperJSONOf ==
    /\ Idle
    /\ \E c \in JSONCalls :
        /\ jsCall' = c
        /\ js' = [Func |-> "SuperJSONOf"]
                 @@ onlyObjects(unmarshal(c, c.params, allOperators, c.panicArg))
    /\ UNCHANGED <<arrVars, re, matchVars, allOperators, tVars>>

\* ------------------------------------- JSON / SubJSONOf / SuperJSONOf: Match
\* dark.GetInterface fails on a got of kind "unexported"
CannotCompareError(c) ==
    IF c.BooleanError THEN BooleanError ELSE Error("cannot compare", <<>>)

\* line 393: did ejson.Marshal fail?
marshalNeverFailed(err) == FALSE
marshalFailed(err) == err # ""

\* jsonify(ctx, got): the decoding of the encoding of got, or the error
jsonify(c, got) ==
    IF got.k = "unexported" THEN [got |-> NoValue, err |-> CannotCompareError(c)]
    ELSE IF marshalFailed(MarshalError(got))
    THEN [got |-> NoValue,
          err |-> IF c.BooleanError THEN BooleanError
                  ELSE ErrorSummary("json.Marshal failed", <<>>, {MarshalError(got)})]
    ELSE [got |-> Unmarshal(Marshal(got)), err |-> NoError]

\* lines 578 and 942: ctx.BeLax = true
keepLax(c) == c
forceLax(c) == [c EXCEPT !.BeLax = TRUE]

\* is the verdict on this expected value the verdict of an operator?
HoldsOperator(expected) ==
    expected.k \in {"op", "tag", "placeholder", "embedded", "nested"}

\* deepValueEqual(ctx, got, expected) on JSON values: an operator decides by
\* itself (opAccepts); else the kinds are the same, or both numbers when
\* lax, and the values equal.
JSONValueMatches(got, expected, lax, opAccepts) ==
    IF HoldsOperator(expected) THEN opAccepts
    ELSE IF got.k = expected.k THEN got = expected
    ELSE lax /\ {got.k, expected.k} = {"int", "float64"} /\ got.v = expected.v

\* the deepValueEqual call, with what it was called on: key and of tell the
\* key the values are under and the object they are from, "" and the value
\* itself when the call is on the whole value
DispatchJSON(c, got, expected, opAccepts, key, of) ==
    (IF JSONValueMatches(got, expected, c.BeLax, opAccepts)
     THEN Outcome(c.Errors, NoError)
     ELSE CollectError(c, Error("values differ", c.Path)))
    @@ [calls |-> <<[got |-> got, expected |-> expected, BeLax |-> c.BeLax,
                     key |-> key, of |-> of]>>]

\* (j *tdJSON) Match(ctx, got)
tdJSONMatch(j, c, got, opAccepts) ==
    LET g == jsonify(c, got)
    IN  IF g.err # NoError THEN NoDispatch(CollectError(c, g.err))
        ELSE DispatchJSON(forceLax(c), g.got, j.expected, opAccepts, "", g.got)

\* ctx.AddMapKey(key)
AddMapKey(c, key) == [c EXCEPT !.Path = Append(c.Path, key)]

\* tdMap.match, the loop on the expected entries, from the i-th key on
RECURSIVE MapMatchEntries(_, _, _, _, _)
MapMatchEntries(m, c, got, i, calls) ==
    IF i > Len(MapKeys) THEN Outcome(c.Errors, NoError) @@ [calls |-> calls]
    ELSE
        LET key == MapKeys[i]
        IN  IF key \notin Keys(m.expected.v) \/ key \notin Keys(got.v)
            THEN MapMatchEntries(m, c, got, i + 1, calls)
            ELSE
                LET r == DispatchJSON(AddMapKey(c, key),
                                      Raw("float64", KeyValue(got.v, key)),
                                      Raw("float64", KeyValue(m.expected.v, key)),
                                      TRUE, key, got)
                IN  IF r.ret # NoError
                    THEN Outcome(r.Errors, r.ret) @@ [calls |-> calls \o r.calls]
                    ELSE MapMatchEntries(m, [c EXCEPT !.Errors = r.Errors], got, i + 1,
                                         calls \o r.calls)

\* lines 762 and 917: the kind of map comparison the constructor asks for
mapKindAllSuper(func) == "superMap"
mapKindAllSub(func) == "subMap"
mapKind(func) == IF func = "SubJSONOf" THEN "subMap" ELSE "superMap"

\* tdMap.match: the type of got, the expected entries, then the keys
\* expected and not found (superMap) or found and not expected (subMap)
tdMapMatch(m, c, got) ==
    IF got.k # "map"
    THEN NoDispatch(CollectError(c, ErrorSummary("type mismatch", c.Path,
                                                 {"map[string]interface {}"})))
    ELSE
        LET r == MapMatchEntries(m, c, got, 1, <<>>)
            keys == IF mapKind(m.Func) = "superMap"
                    THEN Keys(m.expected.v) \ Keys(got.v)
                    ELSE Keys(got.v) \ Keys(m.expected.v)
        IN  IF r.ret # NoError \/ keys = {} THEN r
            ELSE IF c.BooleanError
            THEN Outcome(r.Errors, BooleanError) @@ [calls |-> r.calls]
            ELSE CollectError([c EXCEPT !.Errors = r.Errors],
                              ErrorSummary("comparing hash keys of %%", c.Path, keys))
                 @@ [calls |-> r.calls]

\* lines 930-940: the nil case
gotNeverNull(got) == FALSE
gotIsNull(got) == got.k = "nil"

\* (m *tdMapJSON) Match(ctx, got)
tdMapJSONMatch(m, c, got) ==
    LET g == jsonify(c, got)
    IN  IF g.err # NoError THEN NoDispatch(CollectError(c, g.err))
        ELSE IF gotIsNull(g.got)
        THEN NoDispatch(IF c.BooleanError THEN Outcome(c.Errors, BooleanError)
                        ELSE CollectError(c, ErrorSummary("values differ", c.Path,
                                                          {"null", "non-null"})))
        ELSE tdMapMatch(m, forceLax(c), g.got)

\* lines 572 and 924: Match gets ctx by value, so that "ctx.BeLax = true"
\* is on its own copy; what the caller has after the call is its context
\* with the errors collected
byReference(c, local) == local
byValue(c, local) == c

\* the contexts of a JSON match, lax or not
JSONContexts == {[c EXCEPT !.BeLax = lax] : c \in Contexts, lax \in BOOLEAN}

\* the got values tried: objects as maps, a struct, numbers, a string, a
\* slice, nil, and values that cannot be encoded or read
JSONGotValues ==
    {Raw("map", code) : code \in MapCodes}
    \cup {Raw("struct", 1), Raw("struct", 5), Raw("int", 1), Raw("float64", 1),
          Raw("float64", 2), StringV("a"), Raw("slice", 1), Raw("nil", 0),
          Raw("chan", 1), Raw("nested", 1), Raw("unexported", 1)}

\* one Match of the built JSON operator against a got value
JSONMatch ==
    /\ js.status = "ok" /\ js.Func = "JSON"
    /\ lastRet = "none"
    /\ \E c \in JSONContexts, g \in JSONGotValues, opAccepts \in BOOLEAN :
        /\ HoldsOperator(js.expected) \/ opAccepts
        /\ LET r == tdJSONMatch(js, c, g, opAccepts)
           IN  /\ lastIn' = c
               /\ lastCtx' = [byValue(c, forceLax(c)) EXCEPT !.Errors = r.Errors]
               /\ lastGot' = g
               /\ lastRet' = r.ret.Message
               /\ dispatched' = r.calls
    /\ UNCHANGED <<arrVars, re, allOperators, tVars, jsVars>>

\* one Match of the built SubJSONOf or SuperJSONOf operator against a got value
MapJSONMatch ==
    /\ js.status = "ok" /\ js.Func \in {"SubJSONOf", "SuperJSONOf"}
    /\ lastRet = "none"
    /\ \E c \in JSONContexts, g \in JSONGotValues :
        LET r == tdMapJSONMatch(js, c, g)
        IN  /\ lastIn' = c
            /\ lastCtx' = [byValue(c, forceLax(c)) EXCEPT !.Errors = r.Errors]
            /\ lastGot' = g
            /\ lastRet' = r.ret.Message
            /\ dispatched' = r.calls
    /\ UNCHANGED <<arrVars, re, allOperators, tVars, jsVars>>

\* ------------------------------------------------------------------ T
\* A T is [TB |-> the testing.TB it wraps, Config |-> its ContextConfig];
\* ts[i] is the T the i-th pointer built points to.
MaxT == 3           \* most T instances built

contextDefaultRootName == "DATA"

ContextConfig(rootName, maxErrors, failureIsFatal, useEqual, beLax) ==
    [RootName |-> rootName, MaxErrors |-> maxErrors, FailureIsFatal |-> failureIsFatal,
     UseEqual |-> useEqual, BeLax |-> beLax]

DefaultContextConfig == ContextConfig(contextDefaultRootName, 10, FALSE, FALSE, FALSE)

\* (c *ContextConfig) sanitize(): what is not set takes the default
sanitize(config) ==
    [config EXCEPT !.RootName = IF @ = "" THEN contextDefaultRootName ELSE @,
                   !.MaxErrors = IF @ = 0 THEN DefaultContextConfig.MaxErrors ELSE @]

\* the testing.TB values and the configurations handed to NewT
TBs == {"tb1", "tb2", "tb3"}
ConfigsGiven ==
    {DefaultContextConfig,
     ContextConfig("", 0, TRUE, FALSE, FALSE),
     ContextConfig("RECORD", 2, FALSE, TRUE, TRUE)}

NoT == [TB |-> "", Config |-> DefaultContextConfig]

\* what NewT gets as t: nil, a testing.TB or the *T of index T in ts
NoTArg == [kind |-> "", TB |-> "", T |-> 0]

\* the last call: the method, how it ended, the index in ts of the
\* receiver (of the *T handed to NewT) and of the instance returned, 0 for
\* none, and the arguments (t and config are those of NewT)
TCall(method, status, recv, ret, rootName, enable) ==
    [method |-> method, status |-> status, recv |-> recv, ret |-> ret,
     rootName |-> rootName, enable |-> enable, t |-> NoTArg, config |-> <<>>]

NoTCall == TCall("", "none", 0, 0, "", <<>>)

\* "newT.TB = tdT.TB" for a *T, "newT.TB = t" for another testing.TB;
\* a TB of "*T" stands for a *T kept as the TB
keepTB(t, instances) == IF t.kind = "*T" THEN "*T" ELSE t.TB
stealTB(t, instances) == IF t.kind = "*T" THEN instances[t.T].TB ELSE t.TB

\* NewT(t, config...): t is nil, a testing.TB or the *T of index t.T
newT(t, config, instances) ==
    IF Len(config) > 1 THEN [status |-> "panic", msg |-> "too many parameters", T |-> NoT]
    ELSE IF t.kind = "nil" THEN [status |-> "panic", msg |-> "usage", T |-> NoT]
    ELSE
        LET given == IF Len(config) = 0
                     THEN IF t.kind = "*T" THEN instances[t.T].Config ELSE DefaultContextConfig
                     ELSE config[1]
        IN  [status |-> "ok", msg |-> "",
             T |-> [TB |-> stealTB(t, instances), Config |-> sanitize(given)]]

\* A method of T gives [recv |-> what the receiver points to once the
\* method returned, new |-> what the pointer returned points to].
\* "new := *t" copies the T the receiver points to.
rootNameInPlace(t, name) ==
    LET new == [t EXCEPT !.Config.RootName =
                    IF name = "" THEN contextDefaultRootName ELSE name]
    IN  [recv |-> new, new |-> new]

\* (t *T) RootName(rootName)
rootName(t, name) ==
    LET new == [t EXCEPT !.Config.RootName =
                    IF name = "" THEN contextDefaultRootName ELSE name]
    IN  [recv |-> t, new |-> new]

\* len(enable) == 0 || enable[0]
enabledFirstOnly(enable) == Len(enable) > 0 /\ enable[1]
enabled(enable) == Len(enable) = 0 \/ enable[1]

\* (t *T) FailureIsFatal(enable...)
failureIsFatal(t, enable) ==
    [recv |-> t, new |-> [t EXCEPT !.Config.FailureIsFatal = enabled(enable)]]

\* (t *T) UseEqual(enable...)
useEqual(t, enable) ==
    [recv |-> t, new |-> [t EXCEPT !.Config.UseEqual = enabled(enable)]]

\* (t *T) BeLax(enable...)
beLax(t, enable) ==
    [recv |-> t, new |-> [t EXCEPT !.Config.BeLax = enabled(enable)]]

RootNames == {"", "RECORD", contextDefaultRootName}
Enables == {<<>>, <<TRUE>>, <<FALSE>>, <<FALSE, TRUE>>}
TArgs ==
    {[kind |-> "nil", TB |-> "", T |-> 0]}
    \cup {[kind |-> "TB", TB |-> tb, T |-> 0] : tb \in TBs}
    \cup {[kind |-> "*T", TB |-> "", T |-> i] : i \in DOMAIN ts}

otherVars == <<arrVars, re, allOperators, jsVars, matchVars, runVars>>

\* the receiver is left as the method left it, the instance returned is new
Returned(method, i, r, name, enable) ==
    /\ ts' = Append([ts EXCEPT ![i] = r.recv], r.new)
    /\ tCall' = TCall(method, "ok", i, Len(ts) + 1, name, enable)
    /\ UNCHANGED otherVars

\* NewT(t, config...)
NewT ==
    /\ Len(ts) < MaxT
    /\ \E t \in TArgs, config \in SeqsUpTo(ConfigsGiven, 1) \cup {<<DefaultContextConfig, DefaultContextConfig>>} :
        LET r == newT(t, config, ts)
        IN  IF r.status = "ok"
            THEN /\ ts' = Append(ts, r.T)
                 /\ tCall' = [TCall("NewT", "ok", t.T, Len(ts) + 1, "", <<>>)
                                 EXCEPT !.t = t, !.config = config]
            ELSE /\ ts' = ts
                 /\ tCall' = [TCall("NewT", "panic", t.T, 0, "", <<>>)
                                 EXCEPT !.t = t, !.config = config]
    /\ UNCHANGED otherVars

\* t.RootName(rootName)
RootName ==
    /\ Len(ts) < MaxT
    /\ \E i \in DOMAIN ts, name \in RootNames :
        Returned("RootName", i, rootName(ts[i], name), name, <<>>)

\* t.FailureIsFatal(enable...)
FailureIsFatal ==
    /\ Len(ts) < MaxT
    /\ \E i \in DOMAIN ts, enable \in Enables :
        Returned("FailureIsFatal", i, failureIsFatal(ts[i], enable), "", enable)

\* t.UseEqual(enable...)
UseEqual ==
    /\ Len(ts) < MaxT
    /\ \E i \in DOMAIN ts, enable \in Enables :
        Returned("UseEqual", i, useEqual(ts[i], enable), "", enable)

\* t.BeLax(enable...)
BeLax ==
    /\ Len(ts) < MaxT
    /\ \E i \in DOMAIN ts, enable \in Enables :
        Returned("BeLax", i, beLax(ts[i], enable), "", enable)

\* ------------------------------------------------ Run / RunAssertRequire
\* "tb1" is a *testing.T, "tb2" a *test.TestingTB, which has no Run method,
\* "tb3" a TB of a type whose Run method has another signature; "sub" is
\* the *testing.T that (*testing.T).Run hands to its function.
TBTypes == {"*testing.T", "*test.TestingTB", "*custom.TB"}

\* reflect.TypeOf(t.TB)
TypeOfTB(tb) ==
    CASE tb \in {"tb1", "sub"} -> "*testing.T"
      [] tb = "tb2" -> "*test.TestingTB"
      [] OTHER -> "*custom.TB"

\* ttb.MethodByName("Run"): the signature of the method, "" for no method
MethodByName(ttb) ==
    CASE ttb = "*testing.T" -> "(X) Run(string, func(X)) bool"
      [] ttb = "*test.TestingTB" -> ""
      [] OTHER -> "(X) Run(string) bool"

\* lines 490-496: the signature getRunFunc looks for
isRun(signature) == signature = "(X) Run(string, func(X)) bool"

PtrT(i) == [kind |-> "*T", TB |-> "", T |-> i]
TBArg(tb) == [kind |-> "TB", TB |-> tb, T |-> 0]

Goroutines == {1, 2}

\* a goroutine: pc is where it is in its call (idle, lock, lookup, store,
\* unlock, body, done), recv the index in ts of the receiver, fFails tells
\* whether f reports a failure on the *T it gets, ttb is the type of
\* t.TB, vfuncs what getRunFunc found ("found" or "zero"), then what the
\* call did: the path taken, the instances f got at each call, and ret
NoG ==
    [pc |-> "idle", method |-> "", recv |-> 0, fFails |-> FALSE, ttb |-> "",
     vfuncs |-> "zero", path |-> "", fCalls |-> <<>>, ret |-> FALSE]

NoTB == [failed |-> FALSE, logs |-> <<>>]

\* runtMu.Lock() goes on once no goroutine holds the mutex
mutexIgnored(mu) == TRUE
mutexFree(mu) == mu = 0

\* lines 486-509: vfuncs, ok := runt[ttb], and what is then to store:
\* [vfuncs, store], store telling whether runt[ttb] is assigned
getRunFuncLookup(cache, ttb) ==
    IF cache[ttb] # "absent" THEN [vfuncs |-> cache[ttb], store |-> FALSE]
    ELSE IF MethodByName(ttb) # ""
    THEN IF isRun(MethodByName(ttb)) THEN [vfuncs |-> "found", store |-> TRUE]
         ELSE [vfuncs |-> "zero", store |-> FALSE]
    ELSE [vfuncs |-> "zero", store |-> TRUE]

\* AssertRequire(t, config...): assert is Assert(t, config...), require is
\* assert.FailureIsFatal()
AssertRequire(t, config, instances) ==
    LET assert == failureIsFatal(newT(t, config, instances).T, <<FALSE>>).new
    IN  <<assert, failureIsFatal(assert, <<>>).new>>

\* lines 553 and 603: the config handed to NewT with the TB of the subtest
withoutConf(conf) == <<>>
withConf(conf) == <<conf>>

\* f reports a failure on the *T it gets: the TB of that *T has failed
Reported(fFails, tb, state) ==
    IF fFails THEN [state EXCEPT ![tb].failed = TRUE] ELSE state

Logf(tb, line, state) == [state EXCEPT ![tb].logs = Append(@, line)]

\* what a call did: the state of the TBs, each call of f with the
\* instances it got, the path taken and the value returned
Ran(state, fCalls, path, ret) ==
    [tbs |-> state, fCalls |-> fCalls, path |-> path, ret |-> ret]

\* (*testing.T).Run(name, fn): fn is called once with the TB of the
\* subtest, and Run reports whether it succeeded
tbRun(state, passed, fFails) == Ran(state, <<passed>>, "TB.Run", ~fFails)

\* (t *T) Run(name, f), from the result of getRunFunc on; t is the index
\* in instances of the receiver
run(t, found, fFails, instances, state) ==
    IF ~found
    THEN LET new == newT(PtrT(t), <<>>, instances).T
             logged == Logf(new.TB, "++++ name", state)
             after == Reported(fFails, new.TB, logged)
         IN  Ran(after, <<<<new>>>>, "fallback", ~after[new.TB].failed)
    ELSE LET conf == instances[t].Config
         IN  tbRun(state, <<newT(TBArg("sub"), withConf(conf), instances).T>>, fFails)

\* (t *T) RunAssertRequire(name, f), from the result of getRunFunc on
runAssertRequire(t, found, fFails, instances, state) ==
    IF ~found
    THEN LET both == AssertRequire(PtrT(t), <<>>, instances)
             tb == instances[t].TB
             logged == Logf(tb, "++++ name", state)
             after == Reported(fFails, both[1].TB, logged)
         IN  Ran(after, <<both>>, "fallback", ~after[tb].failed)
    ELSE LET conf == instances[t].Config
             sub == newT(TBArg("sub"), withConf(conf), instances).T
         IN  tbRun(state, AssertRequire(PtrT(1), <<>>, <<sub>>), fFails)

\* t.Fail(), the Fail of the TB of t (test.TestingTB.Fail)
Fail ==
    /\ \E i \in DOMAIN ts :
        /\ ~tbs[ts[i].TB].failed
        /\ tbs' = [tbs EXCEPT ![ts[i].TB].failed = TRUE]
    /\ UNCHANGED <<arrVars, re, allOperators, jsVars, matchVars, ts, tCall, runt, runtMu, gs>>

runOtherVars == <<arrVars, re, allOperators, jsVars, matchVars, ts, tCall>>

\* a goroutine calls t.Run(name, f) or t.RunAssertRequire(name, f) and
\* enters getRunFunc: ttb := reflect.TypeOf(t.TB)
GetRunFunc ==
    /\ \E p \in Goroutines, i \in DOMAIN ts, method \in {"Run", "RunAssertRequire"},
          fFails \in BOOLEAN :
        /\ gs[p].pc = "idle"
        /\ gs' = [gs EXCEPT ![p] = [NoG EXCEPT !.pc = "lock", !.method = method, !.recv = i,
                                              !.fFails = fFails,
                                              !.ttb = TypeOfTB(ts[i].TB)]]
    /\ UNCHANGED <<runOtherVars, tbs, runt, runtMu>>

\* runtMu.Lock()
Lock ==
    /\ \E p \in Goroutines :
        /\ gs[p].pc = "lock"
        /\ mutexFree(runtMu)
        /\ runtMu' = p
        /\ gs' = [gs EXCEPT ![p].pc = "lookup"]
    /\ UNCHANGED <<runOtherVars, tbs, runt>>

\* vfuncs, ok := runt[ttb] and, when not there, the search of the method
Lookup ==
    /\ \E p \in Goroutines :
        /\ gs[p].pc = "lookup"
        /\ LET r == getRunFuncLookup(runt, gs[p].ttb)
           IN  gs' = [gs EXCEPT ![p].vfuncs = r.vfuncs,
                                ![p].pc = IF r.store THEN "store" ELSE "unlock"]
    /\ UNCHANGED <<runOtherVars, tbs, runt, runtMu>>

\* runt[ttb] = vfuncs
Store ==
    /\ \E p \in Goroutines :
        /\ gs[p].pc = "store"
        /\ runt' = [runt EXCEPT ![gs[p].ttb] = gs[p].vfuncs]
        /\ gs' = [gs EXCEPT ![p].pc = "unlock"]
    /\ UNCHANGED <<runOtherVars, tbs, runtMu>>

\* the deferred runtMu.Unlock(): getRunFunc returns vfuncs and
\* vfuncs != (runtFuncs{})
Unlock ==
    /\ \E p \in Goroutines :
        /\ gs[p].pc = "unlock"
        /\ runtMu' = 0
        /\ gs' = [gs EXCEPT ![p].pc = "body"]
    /\ UNCHANGED <<runOtherVars, tbs, runt>>

Returns(p, r) ==
    /\ tbs' = r.tbs
    /\ gs' = [gs EXCEPT ![p].pc = "done", ![p].path = r.path, ![p].fCalls = r.fCalls,
                         ![p].ret = r.ret]
    /\ UNCHANGED <<runOtherVars, runt, runtMu>>

\* t.Run(name, f), once getRunFunc returned
Run ==
    \E p \in Goroutines :
        /\ gs[p].pc = "body" /\ gs[p].method = "Run"
        /\ Returns(p, run(gs[p].recv, gs[p].vfuncs # "zero", gs[p].fFails, ts, tbs))

\* t.RunAssertRequire(name, f), once getRunFunc returned
RunAssertRequire ==
    \E p \in Goroutines :
        /\ gs[p].pc = "body" /\ gs[p].method = "RunAssertRequire"
        /\ Returns(p, runAssertRequire(gs[p].recv, gs[p].vfuncs # "zero", gs[p].fFails,
                                       ts, tbs))

\* -------------------------------------------------------- specifications
\* no TB has failed, the cache is empty, no goroutine has called Run
NoRun ==
    /\ tbs = [tb \in TBs |-> NoTB]
    /\ runt = [ttb \in TBTypes |-> "absent"]
    /\ runtMu = 0
    /\ gs = [p \in Goroutines |-> NoG]

\* nothing built, nothing matched yet
Init ==
    /\ arrModel = NoModel
    /\ arrEntries = <<>>
    /\ arr = NoArray
    /\ re = NoRe
    /\ allOperators = FullRegistry
    /\ jsCall = NoCall
    /\ js = NoJSON
    /\ lastCtx = NoContext
    /\ lastIn = NoContext
    /\ lastGot = NoModel
    /\ lastRet = "none"
    /\ dispatched = <<>>
    /\ ts = <<>>
    /\ tCall = NoTCall
    /\ NoRun

ArrayNext == Array \/ Slice \/ ArrayMatch

SpecArray == Init /\ [][ArrayNext]_vars

ReNext == Re \/ ReAll \/ ReMatch

SpecRe == Init /\ [][ReNext]_vars

\* the registry is any of Registries
JSONInit ==
    /\ arrModel = NoModel
    /\ arrEntries = <<>>
    /\ arr = NoArray
    /\ re = NoRe
    /\ allOperators \in Registries
    /\ jsCall = NoCall
    /\ js = NoJSON
    /\ lastCtx = NoContext
    /\ lastIn = NoContext
    /\ lastGot = NoModel
    /\ lastRet = "none"
    /\ dispatched = <<>>
    /\ ts = <<>>
    /\ tCall = NoTCall
    /\ NoRun

JSONNext == JSON \/ SubJSONOf \/ SuperJSONOf

SpecJSON == JSONInit /\ [][JSONNext]_vars

\* the three constructors and the Match of what they built
JSONMatchNext == JSONNext \/ JSONMatch \/ MapJSONMatch

SpecJSONMatch == Init /\ [][JSONMatchNext]_vars

\* the three families of operators, built then matched
MatchNext == ArrayNext \/ ReNext \/ JSONMatchNext

SpecMatch == Init /\ [][MatchNext]_vars

TNext == NewT \/ RootName \/ FailureIsFatal \/ UseEqual \/ BeLax

SpecT == Init /\ [][TNext]_vars

\* two instances were built: NewT(tb, config), then NewT(other)
RunInit ==
    /\ arrModel = NoModel
    /\ arrEntries = <<>>
    /\ arr = NoArray
    /\ re = NoRe
    /\ allOperators = FullRegistry
    /\ jsCall = NoCall
    /\ js = NoJSON
    /\ lastCtx = NoContext
    /\ lastIn = NoContext
    /\ lastGot = NoModel
    /\ lastRet = "none"
    /\ dispatched = <<>>
    /\ \E tb \in TBs, config \in ConfigsGiven, other \in TBs :
        /\ ts = <<newT(TBArg(tb), <<config>>, <<>>).T, newT(TBArg(other), <<>>, <<>>).T>>
        /\ tCall = [TCall("NewT", "ok", 0, 2, "", <<>>) EXCEPT !.t = TBArg(other)]
    /\ NoRun

RunNext == Fail \/ GetRunFunc \/ Lock \/ Lookup \/ Store \/ Unlock \/ Run \/ RunAssertRequire

SpecRun == RunInit /\ [][RunNext]_vars

Next == ArrayNext \/ ReNext \/ JSONMatchNext \/ TNext \/ RunNext

Spec == Init /\ [][Next]_vars

\* ================================================================ claims
ArrayBuilt == arr.status = "ok"
MaxOf(x, y) == IF x >= y THEN x ELSE y
HighestIndex == SetMax(DOMAIN arrEntries \cup {-1})

\* what the resolution rule gives at index i: the override, else the
\* model's item, else the zero value
ResolvedEntry(i) ==
    IF i \in DOMAIN arrEntries
    THEN IF arrEntries[i] = NilV THEN Zero(arrModel.elem) ELSE arrEntries[i]
    ELSE IF i < Len(arrModel.elems) THEN At(arrModel.elems, i)
    ELSE Zero(arrModel.elem)

\* C1: in every operator Array or Slice accepted, the expected entry of
\* every index is the override if there is one, else the model's item if
\* the model has one, else the zero value of the items type.
\* Violated: Slice((*[]int)(nil), ArrayEntries{1: 1}) leaves entry #0 invalid.
C1_ResolutionRule ==
    ArrayBuilt =>
        \A i \in 0..(Len(arr.expectedEntries) - 1) :
            At(arr.expectedEntries, i) = ResolvedEntry(i)

\* C2: Array on an array type of length N fails with the "array length"
\* construction error exactly when an expected index is >= N; hence no
\* built operator, and no Match, has such an index.
C2_ArrayIndexChecked ==
    (arr.status # "none" /\ arr.kind = "Array" /\ arrModel.kind = "Array") =>
        /\ (\E i \in DOMAIN arrEntries : i >= arrModel.len)
             <=> (arr.status = "error"
                  /\ arr.msg = "array length is %d, so cannot have #%d expected index")
        /\ lastRet # "none" => HighestIndex < arrModel.len

C2_Witness ==
    /\ arr.kind = "Array" /\ arrModel.kind = "Array" /\ arrModel.len = 2
    /\ DOMAIN arrEntries = {0, 2}
    /\ arr.status = "error"

\* C3: a built Slice has max(highest expected index + 1, length of the
\* model) expected entries, a nil model counting for 0.
C3_SliceLength ==
    (ArrayBuilt /\ arr.kind = "Slice") =>
        Len(arr.expectedEntries) = MaxOf(HighestIndex + 1, Len(arrModel.elems))

C3_Witness ==
    /\ ArrayBuilt /\ arr.kind = "Slice"
    /\ Len(arrModel.elems) = 2 /\ HighestIndex = 0
    /\ Len(arr.expectedEntries) = 2

\* C4: on a got of the type of the model, Match reports no mismatch iff
\* got has as many items as the operator has expected entries and each item
\* matches the entry of its index; when exactly one item differs, the one
\* mismatch reported (boolean-only mode reports none) is at its index.
Matched == lastRet # "none"
GotTyped == TypeOf(lastGot) = ExpectedType(arr)
NoMismatch == lastRet = "" /\ lastCtx.Errors = <<>>
SameLength == Len(lastGot.elems) = Len(arr.expectedEntries)
Differing ==
    {i \in 0..(Len(arr.expectedEntries) - 1) :
        ~ValueMatches(At(lastGot.elems, i), At(arr.expectedEntries, i))}
Mismatches == SelectSeq(lastCtx.Errors, LAMBDA e : e # ErrTooManyErrors)

C4_ArrayMatch ==
    (Matched /\ GotTyped) =>
        /\ NoMismatch <=> (SameLength /\ Differing = {})
        /\ (SameLength /\ Cardinality(Differing) = 1) =>
              /\ Len(Mismatches) = IF lastCtx.BooleanError THEN 0 ELSE 1
              /\ \A k \in DOMAIN Mismatches : \A i \in Differing : Mismatches[k].Path = <<i>>

\* Array([2]int{1, 0}, ArrayEntries{1: 1}) against [2]int{1, 0}
C4_Witness ==
    /\ Matched /\ GotTyped /\ arr.kind = "Array"
    /\ arrModel.elems = <<IntV(1), IntV(0)>>
    /\ arr.expectedEntries = <<IntV(1), IntV(1)>>
    /\ lastGot.elems = <<IntV(1), IntV(0)>>
    /\ lastCtx.Errors = <<Error("values differ", <<1>>)>>

\* ----------------------------------------------------------- Re / ReAll
ReMatched == re.status = "ok" /\ lastRet # "none"
Textual == lastGot.kind \in {"string", "error", "fmt.Stringer", "[]byte"}
GotText == string(lastGot.text)
NumGroups == Cardinality({i \in DOMAIN re.re : re.re[i].cap})

\* groups 1..n of every match of "matches", match after match
FlatGroups(matches) ==
    [k \in 1..(Len(matches) * NumGroups) |->
        matches[((k - 1) \div NumGroups) + 1][((k - 1) % NumGroups) + 2]]

HandedOver == dispatched[1].got.elems

\* C5: with captures, Re hands the groups of the first match only to the
\* comparison and ReAll the groups of every non-overlapping match; without
\* captures both succeed iff the pattern matches got at least once.
C5_ReOnceReAllEvery ==
    (ReMatched /\ Textual) =>
        LET every == FindAllSubmatch(re.re, GotText, -1)
        IN  /\ (needCaptures(re) /\ every # <<>>) =>
                 /\ Len(dispatched) = 1
                 /\ HandedOver = FlatGroups(IF re.Func = "Re" THEN <<every[1]>> ELSE every)
            /\ ~needCaptures(re) =>
                 /\ dispatched = <<>>
                 /\ NoMismatch <=> MatchString(re.re, GotText)

\* ReAll("(a)", ...) against "aba" hands both matches over, Re the first
C5_Witness ==
    /\ ReMatched /\ re.Func = "ReAll" /\ needCaptures(re)
    /\ re.re = <<Atom({"a"}, TRUE)>>
    /\ lastGot.text = Str(<<"a", "b", "a">>)
    /\ Len(HandedOver) = 2

NoMatchWithCaptures ==
    /\ ReMatched /\ Textual /\ needCaptures(re)
    /\ FindAllSubmatch(re.re, GotText, -1) = <<>>

DoesNotMatchReported ==
    \E i \in DOMAIN lastCtx.Errors : lastCtx.Errors[i].Message = "does not match Regexp"

C7_Original ==
    NoMatchWithCaptures => (DoesNotMatchReported /\ dispatched = <<>>)

\* C7, amended: with a captures expectation and no match, Match fails
\* without evaluating the expectation; it records "does not match Regexp"
\* unless the context is boolean-only, where it returns the bare failure.
C7_NoMatchNoCaptures ==
    NoMatchWithCaptures =>
        /\ dispatched = <<>>
        /\ ~NoMismatch
        /\ IF lastCtx.BooleanError
           THEN lastRet = "BooleanError" /\ lastCtx.Errors = <<>>
           ELSE Mismatches = <<Error("does not match Regexp", <<>>)>>

\* Re("(a)", []string{}) against "b": the expectation accepts no capture
C7_Witness ==
    /\ NoMatchWithCaptures
    /\ re.captures = [type |-> "[]string", elems |-> <<>>]
    /\ ~lastCtx.BooleanError
    /\ lastGot.text = Str(<<"b">>)

\* ----------------------------------------- JSON / SubJSONOf / SuperJSONOf
JSONCalled == js.status # "none"
TextRead == jsCall.type \in {"string", "file.json", "[]byte", "io.Reader"}
SameTagMsg == "%s(): 2 params have the same tag \"%s\""
NotMarshalledMsg == "%s(): param #%d of type %T cannot be JSON marshalled"
Params == jsCall.params
\* every param went through the substitution loop
Substituted == JSONCalled /\ TextRead /\ js.msg \notin {SameTagMsg, NotMarshalledMsg}
\* the text was resolved to a value
Parsed == js.status = "ok" \/ js.msg = "%s() only accepts JSON objects {...}"
IsOperator(p) == p.k \in {"op", "tag"}
TwoSameTags ==
    \E i, j \in DOMAIN Params :
        i < j /\ Params[i].k = "tag" /\ Params[j].k = "tag" /\ Params[i].name = Params[j].name

\* C8: $i resolves to the i-th param, for each i in 1..n; a param
\* Tag(name, op) is resolved by $i and by $name; a name no param is tagged
\* with is resolved by nothing; two params of the same tag make the
\* construction fail.
C8_Placeholders ==
    (JSONCalled /\ TextRead) =>
        /\ TwoSameTags => js.status = "panic"
        /\ (Substituted /\ jsCall.doc.tok = "num" /\ jsCall.doc.n \in DOMAIN Params) =>
              LET p == Params[jsCall.doc.n]
                  e == js.expected
              IN  /\ Parsed
                  /\ CASE p.k = "op" ->
                             e.k = "placeholder" /\ Unwrap(e) = p /\ e.num = jsCall.doc.n
                       [] p.k = "tag" -> e = p
                       [] OTHER -> e \in {p, Unmarshal(Marshal(p))}
        /\ (Substituted /\ jsCall.doc.tok = "name") =>
              LET tagged == {i \in DOMAIN Params :
                                Params[i].k = "tag" /\ Params[i].name = jsCall.doc.Name}
              IN  IF tagged = {}
                  THEN js.status = "panic" /\ js.err.fmt = "unknown placeholder"
                  ELSE /\ Parsed
                       /\ js.expected.k = "placeholder"
                       /\ js.expected.name = jsCall.doc.Name
                       /\ \A i \in tagged : Unwrap(js.expected) = Params[i]

\* JSON(`$y`, Gt(..), Tag("y", ..)): $y is the second param
C8_Witness ==
    /\ js.status = "ok" /\ js.Func = "JSON"
    /\ Params = <<Op(1), Tag("y", 1)>>
    /\ jsCall.doc = Doc("name", 0, "y", <<>>)
    /\ Unwrap(js.expected) = Tag("y", 1)

\* C9: a param that is not an operator is replaced by the decoding of its
\* encoding when the encoding succeeds, kept as it is when the encoding
\* fails on an operator nested in it, and aborts the construction with an
\* error naming its position when the encoding fails otherwise; a param
\* that is an operator is never replaced by a decoding.
AbortedAt(i) == js.status = "panic" /\ js.msg \in {SameTagMsg, NotMarshalledMsg} /\ js.index = i
AbortedBefore(i) == \E j \in 1..(i - 1) : AbortedAt(j)

C9_ParamsCanonicalized ==
    (JSONCalled /\ TextRead) =>
        \A i \in DOMAIN Params :
            LET p == Params[i]
            IN  ~AbortedBefore(i) =>
                    CASE IsOperator(p) ->
                            ~AbortedAt(i) => (js.params[i] = p \/ Unwrap(js.params[i]) = p)
                      [] MarshalError(p) = "" ->
                            ~AbortedAt(i) /\ js.params[i] = Unmarshal(Marshal(p))
                      [] MarshalError(p) = "OperatorNotJSONMarshallableError" ->
                            ~AbortedAt(i) /\ js.params[i] = p
                      [] OTHER -> AbortedAt(i) /\ js.msg = NotMarshalledMsg

\* JSON(`$1`, []interface{}{td.Gt(..)}, 1): the first param is kept, the
\* second becomes a float64
C9_Witness ==
    /\ js.status = "ok"
    /\ Params = <<Raw("nested", 1), Raw("int", 1)>>
    /\ js.params = <<Raw("nested", 1), Raw("float64", 1)>>

\* C10: an operator call whose name is not in the registry gives "unknown
\* operator", blocked or not; a registered name that is blocked gives "not
\* usable in JSON()", followed by ", use X instead" exactly when the blocked
\* entry has an alternative X; the constructor is called in neither case.
OperatorCalled == JSONCalled /\ TextRead /\ jsCall.doc.tok = "call"
CalledName == jsCall.doc.Name

C10_UnknownThenBlocked ==
    OperatorCalled =>
        /\ CalledName \notin allOperators =>
              /\ js.status = "panic" /\ ~js.called
              /\ js.err = Errorf("unknown operator %s()", CalledName, "")
        /\ (CalledName \in allOperators /\ CalledName \in DOMAIN forbiddenOpsInJSON) =>
              /\ js.status = "panic" /\ ~js.called
              /\ js.err.name = CalledName
              /\ js.err.hint = forbiddenOpsInJSON[CalledName]
              /\ js.err.fmt = IF forbiddenOpsInJSON[CalledName] = ""
                              THEN "%s() is not usable in JSON()"
                              ELSE "%s() is not usable in JSON(), use %s instead"

\* Cap(...) in the text while the registry has no Cap, though it is blocked
C10_Witness ==
    /\ OperatorCalled /\ CalledName = "Cap" /\ "Cap" \notin allOperators
    /\ js.err.fmt = "unknown operator %s()"

\* ------------------------------------------------- embedded operator calls
\* the call names an operator that is registered and not blocked
OperatorKnown == OperatorCalled /\ rejectName(allOperators, CalledName) = NoErr
NumArgs == Len(jsCall.doc.Params)
RejectedBeforeCall == js.status = "panic" /\ js.err # NoErr /\ ~js.called

\* least and most arguments as the documentation gives them, -1 for no limit
DocumentedArity(name) ==
    CASE name = "Between" -> <<2, 3>>
      [] name \in {"N", "Re"} -> <<1, 2>>
      [] name \in {"SubMapOf", "SuperMapOf"} -> <<1, 1>>
      [] OTHER -> <<Signatures[name].NumIn,
                   IF Signatures[name].IsVariadic THEN -1 ELSE Signatures[name].NumIn>>

OutOfArity(name, k) ==
    k < DocumentedArity(name)[1]
    \/ (DocumentedArity(name)[2] >= 0 /\ k > DocumentedArity(name)[2])

ArityMessages ==
    {"%s() requires at least one parameter", "%s() requires no parameters",
     "%s() requires only one parameter", "%s() requires %d parameters",
     "%s() requires %d or %d parameters"}

\* C11 as stated: a call of a known operator with k arguments is rejected
\* before its constructor is called iff k is out of the documented
\* (min, max).  Violated: HasPrefix(1) and Between(1, 1, "()") have the
\* right number of arguments and are rejected before the constructor.
C11_Original ==
    OperatorKnown => (RejectedBeforeCall <=> OutOfArity(CalledName, NumArgs))

\* C11, amended: a call of a known operator with k arguments is rejected
\* with a "requires ... parameter(s)" error iff k is out of the documented
\* (min, max), and then the constructor is not called.
C11_ArityChecked ==
    OperatorKnown =>
        /\ (js.err.fmt \in ArityMessages) <=> OutOfArity(CalledName, NumArgs)
        /\ OutOfArity(CalledName, NumArgs) => RejectedBeforeCall

\* N(1, 1, "[]"): one argument too many
C11_Witness ==
    /\ OperatorKnown /\ CalledName = "N" /\ NumArgs = 3
    /\ js.err = Errorf("%s() requires %d or %d parameters", "N", "")
    /\ ~js.called

\* the documented tokens of the 3rd argument of Between: is from accepted,
\* is to accepted
Policy ==
    [t \in {"[]", "BoundsInIn", "[[", "BoundsInOut", "]]", "BoundsOutIn", "][", "BoundsOutOut"} |->
        [from |-> t \in {"[]", "BoundsInIn", "[[", "BoundsInOut"},
         to |-> t \in {"[]", "BoundsInIn", "]]", "BoundsOutIn"}]]

BetweenCalled == OperatorKnown /\ CalledName = "Between"
ThirdArg == jsCall.doc.Params[3]
Bad3rdMsg == "Between() bad 3rd parameter, use \"[]\", \"[[\", \"]]\" or \"][\""

\* C12: in a Between call with three arguments, the third one selects the
\* bounds of the operator built as documented; any other third argument, a
\* non-string included, gives the "bad 3rd parameter" error and no
\* operator; with two arguments the bounds include from and to.
C12_BetweenBounds ==
    BetweenCalled =>
        /\ NumArgs = 3 =>
              IF ThirdArg.k = "string" /\ ThirdArg.name \in DOMAIN Policy
              THEN /\ js.err.fmt # Bad3rdMsg
                   /\ jsCall.panicArg = "" =>
                         /\ js.expected.k = "embedded"
                         /\ boundsInclusive(js.expected.of) = Policy[ThirdArg.name]
              ELSE /\ js.status = "panic" /\ js.err.fmt = Bad3rdMsg
                   /\ js.expected = NoValue /\ ~js.called
        /\ (NumArgs = 2 /\ jsCall.panicArg = "") =>
              /\ js.expected.k = "embedded"
              /\ boundsInclusive(js.expected.of) = [from |-> TRUE, to |-> TRUE]

\* JSON(`Between(1, 1, "]]")`): from is excluded, to included
C12_Witness ==
    /\ BetweenCalled /\ NumArgs = 3 /\ ThirdArg = StringV("]]")
    /\ js.status = "ok"
    /\ boundsInclusive(js.expected.of) = [from |-> FALSE, to |-> TRUE]

\* C13: when the constructor of an embedded operator panics, resolveOp
\* returns no operator and the error "<name>() <what it panicked with>";
\* when it returns, resolveOp returns the operator wrapped and no error;
\* every call returns either an operator or an error, never both.
C13_ConstructorRecovered ==
    OperatorCalled =>
        /\ (js.expected # NoValue) # (js.err # NoErr)
        /\ js.called =>
              IF jsCall.panicArg # ""
              THEN /\ js.expected = NoValue
                   /\ js.err = Errorf("%s() %v", CalledName, jsCall.panicArg)
              ELSE /\ js.err = NoErr
                   /\ js.expected.k = "embedded" /\ js.expected.name = CalledName

\* JSON(`Gt("a")`) when Gt panics
C13_Witness ==
    /\ OperatorCalled /\ CalledName = "Gt" /\ js.called
    /\ jsCall.panicArg = "runtime error"
    /\ js.err = Errorf("%s() %v", "Gt", "runtime error")
    /\ js.status = "panic"

\* ------------------------------------- JSON / SubJSONOf / SuperJSONOf: Match
JSONMatched == js.status = "ok" /\ lastRet # "none"
\* the encode/decode round trip of a got that can be encoded
RoundTrip(g) == Unmarshal(Marshal(g))
Encodable(g) == g.k # "unexported" /\ MarshalError(g) = ""

\* C14: every deepValueEqual call made by the Match of JSON, SubJSONOf or
\* SuperJSONOf is made with laxness on, whatever the incoming context, and
\* on the round trip of got: on all of it for JSON, on its value under a
\* key for SubJSONOf and SuperJSONOf.
C14_RoundTripAndLax ==
    JSONMatched =>
        \A i \in DOMAIN dispatched :
            LET call == dispatched[i]
            IN  /\ call.BeLax
                /\ Encodable(lastGot)
                /\ call.of = RoundTrip(lastGot)
                /\ call.got = IF call.key = "" THEN RoundTrip(lastGot)
                               ELSE Raw("float64", KeyValue(RoundTrip(lastGot).v, call.key))
                /\ (js.Func = "JSON") <=> (call.key = "")

\* JSON(`1`) against int(1) in a context that is not lax: 1.0 is compared
C14_Witness ==
    /\ JSONMatched /\ js.Func = "JSON" /\ js.expected = Raw("float64", 1)
    /\ lastGot = Raw("int", 1) /\ ~lastCtx.BeLax
    /\ Len(dispatched) = 1 /\ dispatched[1].got = Raw("float64", 1) /\ dispatched[1].BeLax
    /\ NoMismatch

\* C15: when the encoding of got fails, Match does not report a match and
\* makes no deepValueEqual call: it records "json.Marshal failed" with the
\* text of the encoder's error as summary, or in boolean-only mode returns
\* the bare failure.
C15_MarshalFailure ==
    (JSONMatched /\ lastGot.k # "unexported" /\ MarshalError(lastGot) # "") =>
        /\ ~NoMismatch
        /\ dispatched = <<>>
        /\ IF lastCtx.BooleanError
           THEN lastRet = "BooleanError" /\ lastCtx.Errors = <<>>
           ELSE Mismatches =
                    <<ErrorSummary("json.Marshal failed", <<>>, {MarshalError(lastGot)})>>

\* SubJSONOf(`{"a": 1}`) against a channel
C15_Witness ==
    /\ JSONMatched /\ js.Func = "SubJSONOf" /\ lastGot = Raw("chan", 1)
    /\ ~lastCtx.BooleanError
    /\ lastCtx.Errors[1].Summary = {"json: unsupported type"}

\* SubJSONOf / SuperJSONOf matched against a got whose round trip is an object
MapMatched(func) ==
    /\ JSONMatched /\ js.Func = func
    /\ Encodable(lastGot) /\ RoundTrip(lastGot).k = "map"
GotKeys == Keys(RoundTrip(lastGot).v)
ExpectedKeys == Keys(js.expected.v)
SameUnder(key) == KeyValue(RoundTrip(lastGot).v, key) = KeyValue(js.expected.v, key)
\* the keys got and expected have both, with values that differ
ValueDiffs == {key \in GotKeys \cap ExpectedKeys : ~SameUnder(key)}
\* the value mismatches do not use up the errors allowed
BudgetLeft == lastCtx.MaxErrors < 0 \/ Cardinality(ValueDiffs) < lastCtx.MaxErrors
KeysMismatch(keys) ==
    \E i \in DOMAIN Mismatches :
        Mismatches[i] = ErrorSummary("comparing hash keys of %%", <<>>, keys)
NamedInMismatch(key) == \E i \in DOMAIN Mismatches : key \in Mismatches[i].Summary

\* C16 as stated: SubJSONOf matches iff every key of got is in expected
\* with a matching value, and every key of got that expected lacks gives a
\* mismatch naming it.  Violated in boolean-only mode, and when the value
\* mismatches found first use up the errors allowed.
C16_Original ==
    MapMatched("SubJSONOf") =>
        /\ NoMismatch <=> (\A key \in GotKeys : key \in ExpectedKeys /\ SameUnder(key))
        /\ \A key \in GotKeys \ ExpectedKeys : NamedInMismatch(key)

\* C16, amended: SubJSONOf matches iff every key of got is in expected
\* with a matching value, keys of expected that got lacks being tolerated;
\* a key of got that expected lacks makes Match fail, with one mismatch
\* naming the keys got has in excess unless the context is boolean-only or
\* the value mismatches found first used up the errors allowed.
C16_SubJSONOf ==
    MapMatched("SubJSONOf") =>
        /\ NoMismatch <=> (\A key \in GotKeys : key \in ExpectedKeys /\ SameUnder(key))
        /\ GotKeys \ ExpectedKeys # {} =>
              /\ ~NoMismatch
              /\ (~lastCtx.BooleanError /\ BudgetLeft) => KeysMismatch(GotKeys \ ExpectedKeys)

\* SubJSONOf(`{"a": 1}`) against {"a": 1, "b": 2}
C16_Witness ==
    /\ MapMatched("SubJSONOf") /\ js.expected = Raw("map", 1) /\ lastGot = Raw("map", 7)
    /\ ~lastCtx.BooleanError
    /\ KeysMismatch({"b"})

\* C17 as stated: SuperJSONOf matches iff every key of expected is in got
\* with a matching value, and every key of expected that got lacks gives a
\* mismatch naming it.  Violated in boolean-only mode, and when the value
\* mismatches found first use up the errors allowed.
C17_Original ==
    MapMatched("SuperJSONOf") =>
        /\ NoMismatch <=> (\A key \in ExpectedKeys : key \in GotKeys /\ SameUnder(key))
        /\ \A key \in ExpectedKeys \ GotKeys : NamedInMismatch(key)

\* C17, amended: SuperJSONOf matches iff every key of expected is in got
\* with a matching value, keys of got that expected lacks being tolerated;
\* a key of expected that got lacks makes Match fail, with one mismatch
\* naming the missing keys unless the context is boolean-only or the value
\* mismatches found first used up the errors allowed.
C17_SuperJSONOf ==
    MapMatched("SuperJSONOf") =>
        /\ NoMismatch <=> (\A key \in ExpectedKeys : key \in GotKeys /\ SameUnder(key))
        /\ ExpectedKeys \ GotKeys # {} =>
              /\ ~NoMismatch
              /\ (~lastCtx.BooleanError /\ BudgetLeft) => KeysMismatch(ExpectedKeys \ GotKeys)

\* SuperJSONOf(`{"a": 1, "b": 2}`) against the struct {"a": 1}
C17_Witness ==
    /\ MapMatched("SuperJSONOf") /\ js.expected = Raw("map", 7) /\ lastGot = Raw("struct", 1)
    /\ ~lastCtx.BooleanError
    /\ KeysMismatch({"b"})

\* SubJSONOf / SuperJSONOf matched against a got whose round trip is null,
\* a scalar or an array
NonMapping ==
    /\ JSONMatched /\ js.Func \in {"SubJSONOf", "SuperJSONOf"}
    /\ Encodable(lastGot) /\ RoundTrip(lastGot).k # "map"

\* the mismatch kept for a got that is not a non-null object
NotAMapping ==
    IF RoundTrip(lastGot).k = "nil"
    THEN ErrorSummary("values differ", <<>>, {"null", "non-null"})
    ELSE ErrorSummary("type mismatch", <<>>, {"map[string]interface {}"})

\* C18: SubJSONOf and SuperJSONOf never match a got whose round trip is
\* null, a scalar or an array, whatever the expected object, {} included;
\* no value is compared, and the mismatch reported is the one kept for a
\* got that is not a non-null object, the only one reported.
C18_NonMapping ==
    NonMapping =>
        /\ ~NoMismatch
        /\ dispatched = <<>>
        /\ \A i \in DOMAIN Mismatches : Mismatches[i] = NotAMapping
        /\ IF lastCtx.BooleanError THEN lastRet = "BooleanError" ELSE Len(Mismatches) = 1

\* SubJSONOf(`{}`) against nil
C18_Witness ==
    /\ NonMapping /\ js.Func = "SubJSONOf" /\ js.expected = Raw("map", 0)
    /\ lastGot = Raw("nil", 0) /\ ~lastCtx.BooleanError
    /\ Mismatches = <<ErrorSummary("values differ", <<>>, {"null", "non-null"})>>

\* -------------------------------------------------------- error budget
MinOf(x, y) == IF x <= y THEN x ELSE y
\* the indexes Match finds a mismatch at, in the order it visits them: the
\* items that differ from the entry of their index, then the first index
\* that got or the expected entries lack
Discovered ==
    LET common == MinOf(Len(lastGot.elems), Len(arr.expectedEntries))
        visited == [i \in 1..(common + IF SameLength THEN 0 ELSE 1) |-> i - 1]
    IN  SelectSeq(visited,
                  LAMBDA i : i >= common
                             \/ ~ValueMatches(At(lastGot.elems, i), At(arr.expectedEntries, i)))
ReportedAt == [k \in DOMAIN Mismatches |-> Mismatches[k].Path[1]]

\* C19: with a maximum of M > 0 errors, Match reports the first M
\* mismatches it discovers, in the order it discovers them, and once M are
\* collected one "too many errors" sentinel ends the list, which has no
\* sentinel while fewer than M are collected; with a negative maximum every
\* mismatch is reported and there is no sentinel.
C19_MaxErrors ==
    (Matched /\ ArrayBuilt /\ GotTyped /\ ~lastCtx.BooleanError) =>
        LET M == lastCtx.MaxErrors
            n == Len(Discovered)
        IN  IF M > 0
            THEN /\ ReportedAt = SubSeq(Discovered, 1, MinOf(M, n))
                 /\ lastCtx.Errors = Mismatches \o (IF n >= M THEN <<ErrTooManyErrors>> ELSE <<>>)
            ELSE /\ ReportedAt = Discovered
                 /\ lastCtx.Errors = Mismatches

\* three items differ and at most 2 errors are asked for
C19_Witness ==
    /\ Matched /\ ArrayBuilt /\ GotTyped /\ ~lastCtx.BooleanError
    /\ lastCtx.MaxErrors = 2 /\ Discovered = <<0, 1, 2>>
    /\ ReportedAt = <<0, 1>>
    /\ lastCtx.Errors[3] = ErrTooManyErrors

\* ------------------------------------------------------------------ T
OptionMethods == {"RootName", "FailureIsFatal", "UseEqual", "BeLax"}

\* the configuration an option method is to give, from the one of the receiver
Targeted(config, call) ==
    CASE call.method = "RootName" ->
            [config EXCEPT !.RootName = IF call.rootName = "" THEN "DATA" ELSE call.rootName]
      [] call.method = "FailureIsFatal" ->
            [config EXCEPT !.FailureIsFatal = (call.enable = <<>> \/ call.enable[1])]
      [] call.method = "UseEqual" ->
            [config EXCEPT !.UseEqual = (call.enable = <<>> \/ call.enable[1])]
      [] OTHER ->
            [config EXCEPT !.BeLax = (call.enable = <<>> \/ call.enable[1])]

\* C20: a call of RootName, FailureIsFatal, UseEqual or BeLax leaves every
\* instance built so far, the receiver included, as it was, and returns an
\* instance with the TB of the receiver and its Config but for the field
\* the method sets: the name given, "DATA" for "", or the flag given, true
\* for none.
C20_OptionsCopy ==
    [][(tCall' # tCall /\ tCall'.method \in OptionMethods) =>
          /\ \A i \in DOMAIN ts : ts'[i] = ts[i]
          /\ ts'[tCall'.ret].TB = ts[tCall'.recv].TB
          /\ ts'[tCall'.ret].Config = Targeted(ts[tCall'.recv].Config, tCall')]_vars

\* t.RootName("") on a t named "RECORD": t keeps its name
C20_Witness ==
    /\ tCall.method = "RootName" /\ tCall.rootName = ""
    /\ ts[tCall.recv].Config.RootName = "RECORD"
    /\ ts[tCall.ret].Config.RootName = "DATA"
    /\ ts[tCall.ret].Config.MaxErrors = 2

\* ------------------------------------------------------------------ NewT
NewTCalled == tCall.method = "NewT"
NewTBuilt == NewTCalled /\ tCall.status = "ok"
UsagePanics == {"too many parameters", "usage"}
Built == ts[tCall.ret]

\* the configuration NewT is to start from and the TB it is to take
StartConfig ==
    IF Len(tCall.config) = 1 THEN tCall.config[1]
    ELSE IF tCall.t.kind = "*T" THEN ts[tCall.t.T].Config
    ELSE DefaultContextConfig
UnderlyingTB == IF tCall.t.kind = "*T" THEN ts[tCall.t.T].TB ELSE tCall.t.TB

\* C21 as stated: the instance built has the starting configuration as it is
C21_Original ==
    NewTBuilt => Built.Config = StartConfig

\* C21: NewT panics exactly with more than one config or a nil t; else
\* the instance built has the TB of t, the one t wraps when t is a *T, so
\* never a *T, and the configuration of t when t is a *T and no config is
\* given, the default one when t is another TB and no config is given,
\* the given one otherwise, where an unset RootName ("") or MaxErrors (0)
\* is replaced by the default; no instance built before is changed.
C21_NewT ==
    [][(tCall' # tCall /\ tCall'.method = "NewT") =>
          /\ (tCall'.status = "panic") <=> (Len(tCall'.config) > 1 \/ tCall'.t.kind = "nil")
          /\ \A i \in DOMAIN ts : ts'[i] = ts[i]
          /\ tCall'.status = "panic" => ts' = ts
          /\ tCall'.status = "ok" =>
                LET call == tCall'
                    given == IF Len(call.config) = 1 THEN call.config[1]
                             ELSE IF call.t.kind = "*T" THEN ts[call.t.T].Config
                             ELSE DefaultContextConfig
                    new == ts'[call.ret]
                IN  /\ call.ret = Len(ts) + 1
                    /\ new.TB \in TBs
                    /\ new.TB = (IF call.t.kind = "*T" THEN ts[call.t.T].TB ELSE call.t.TB)
                    /\ new.Config =
                         [given EXCEPT !.RootName = IF @ = "" THEN "DATA" ELSE @,
                                       !.MaxErrors = IF @ = 0 THEN 10 ELSE @]]_vars

\* NewT on a *T named "RECORD", without config: the new instance has the
\* TB and the configuration of the *T
C21_Witness ==
    /\ NewTBuilt /\ tCall.t.kind = "*T" /\ tCall.config = <<>>
    /\ ts[tCall.t.T].Config.RootName = "RECORD"
    /\ Built = ts[tCall.t.T]

\* ------------------------------------------------ Run / RunAssertRequire
Done(p) == gs[p].pc = "done"
Receiver(p) == ts[gs[p].recv]

\* C22: once Run or RunAssertRequire has returned, on the path through
\* the Run method of the TB as on the fallback path, f was called once;
\* Run gave it one instance with the configuration of the receiver,
\* RunAssertRequire gave it assert and require, with the configuration of
\* the receiver but for FailureIsFatal, false in assert, true in require.
C22_RunConfig ==
    \A p \in Goroutines :
        Done(p) =>
            /\ gs[p].path \in {"TB.Run", "fallback"}
            /\ Len(gs[p].fCalls) = 1
            /\ LET got == gs[p].fCalls[1]
                   conf == Receiver(p).Config
               IN  IF gs[p].method = "Run"
                   THEN Len(got) = 1 /\ got[1].Config = conf
                   ELSE /\ Len(got) = 2
                        /\ got[1].Config = [conf EXCEPT !.FailureIsFatal = FALSE]
                        /\ got[2].Config = [conf EXCEPT !.FailureIsFatal = TRUE]

\* RunAssertRequire has returned through the Run method of a *testing.T,
\* on a receiver with FailureIsFatal set, and Run on the fallback path
C22_Witness ==
    /\ Done(1) /\ Done(2)
    /\ gs[1].method = "RunAssertRequire" /\ gs[1].path = "TB.Run"
    /\ Receiver(1).Config.FailureIsFatal /\ Receiver(1).Config.RootName = "DATA"
    /\ ~gs[1].fCalls[1][1].Config.FailureIsFatal
    /\ gs[1].fCalls[1][2].Config.FailureIsFatal
    /\ gs[2].method = "Run" /\ gs[2].path = "fallback"
    /\ gs[2].fCalls[1][1] = Receiver(2)

\* ------------------------------------------------------ boolean-only mode
\* the context the last Match was called with, in boolean-only mode or not
CtxIn(boolean) == [lastCtx EXCEPT !.Errors = <<>>, !.BooleanError = boolean]

\* Match in boolean-only mode reports a failure
Fails(outcome) == outcome.ret # NoError
\* Match in normal mode reports at least one mismatch
Mismatch(outcome) == outcome.Errors # <<>> \/ outcome.ret # NoError

SameVerdict(boolean, normal) == Fails(boolean) <=> Mismatch(normal)

\* C23: whatever operator was built and whatever got and context it was
\* matched against, its Match on that got fails in boolean-only mode if
\* and only if it reports a mismatch in normal mode (for an operator held
\* by a JSON operator: whatever the verdict of that operator, the same in
\* both modes).
C23_SameVerdict ==
    /\ (ArrayBuilt /\ Matched) =>
            SameVerdict(tdArrayMatch(arr, CtxIn(TRUE), lastGot),
                        tdArrayMatch(arr, CtxIn(FALSE), lastGot))
    /\ ReMatched =>
            SameVerdict(tdReMatch(re, CtxIn(TRUE), lastGot),
                        tdReMatch(re, CtxIn(FALSE), lastGot))
    /\ (JSONMatched /\ js.Func = "JSON") =>
            \A opAccepts \in BOOLEAN :
                SameVerdict(tdJSONMatch(js, CtxIn(TRUE), lastGot, opAccepts),
                            tdJSONMatch(js, CtxIn(FALSE), lastGot, opAccepts))
    /\ (JSONMatched /\ js.Func # "JSON") =>
            SameVerdict(tdMapJSONMatch(js, CtxIn(TRUE), lastGot),
                        tdMapJSONMatch(js, CtxIn(FALSE), lastGot))

\* Re with captures, matched in boolean-only mode against a text the
\* pattern does not match: a failure, and a mismatch in normal mode
C23_Witness ==
    /\ ReMatched /\ needCaptures(re) /\ lastCtx.BooleanError
    /\ Textual /\ ~MatchString(re.re, lastGot.text)
    /\ lastRet = "BooleanError"
    /\ tdReMatch(re, CtxIn(FALSE), lastGot).Errors # <<>>

\* C24: a Match of Array, Slice, Re or ReAll in boolean-only mode renders
\* nothing: no path, no description of the operator, no error message.
C24_NoFormatting ==
    /\ (ArrayBuilt /\ Matched /\ lastCtx.BooleanError) =>
            tdArrayRenders(arr, CtxIn(TRUE), lastGot) = {}
    /\ (ReMatched /\ lastCtx.BooleanError) =>
            tdReRenders(re, CtxIn(TRUE), lastGot) = {}

\* ------------------------------------------------------ Match is pure
\* the last Match, made again on the operator as it is now, with the same
\* context and got, gives the same errors and the same result
SameAgain(outcome) == outcome.Errors = lastCtx.Errors /\ outcome.ret.Message = lastRet

MatchedAgain ==
    /\ ArrayBuilt => SameAgain(tdArrayMatch(arr, lastIn, lastGot))
    /\ re.status = "ok" => SameAgain(tdReMatch(re, lastIn, lastGot))
    /\ (js.status = "ok" /\ js.Func = "JSON") =>
            \E opAccepts \in BOOLEAN : SameAgain(tdJSONMatch(js, lastIn, lastGot, opAccepts))
    /\ (js.status = "ok" /\ js.Func # "JSON") =>
            SameAgain(tdMapJSONMatch(js, lastIn, lastGot))

Reports(message) == {k \in DOMAIN lastCtx.Errors : lastCtx.Errors[k].Message = message}
ExpectedOut == Reports("expected value out of range")
GotOut == Reports("got value out of range")
ArrayMatched == Matched /\ ArrayBuilt /\ GotTyped
\* the items that differ from the entry of their index
ItemDiffs == Len(Discovered) - (IF SameLength THEN 0 ELSE 1)
\* the items that differ leave room for one more error
ArrayBudgetLeft == lastCtx.MaxErrors < 0 \/ ItemDiffs < lastCtx.MaxErrors

\* the out-of-range error is reported once, at index "index", after the
\* mismatches on the items before it
OutOfRangeAt(errors, index) ==
    /\ Cardinality(errors) = 1
    /\ \A k \in errors : lastCtx.Errors[k].Path = <<index>> /\ k = Len(Discovered)
    /\ ReportedAt = Discovered

\* C26 as stated: whatever the mode and the maximum of errors
C26_Original ==
    ArrayMatched =>
        /\ Len(lastGot.elems) < Len(arr.expectedEntries) =>
                OutOfRangeAt(ExpectedOut, Len(lastGot.elems))
        /\ Len(lastGot.elems) > Len(arr.expectedEntries) =>
                OutOfRangeAt(GotOut, Len(arr.expectedEntries))
        /\ ExpectedOut = {} \/ GotOut = {}

\* C26: a Match never reports both out-of-range errors, and none when got
\* has as many items as there are entries; in normal mode, when the items
\* that differ have not used up the maximum of errors, a got with fewer
\* items than entries gets, after the mismatches on its items in index
\* order, one "expected value out of range" at index len(got), and a got
\* with more items gets, after the mismatches on the entries, one "got
\* value out of range" at the index that is the number of entries.
C26_OutOfRange ==
    ArrayMatched =>
        /\ ExpectedOut = {} \/ GotOut = {}
        /\ SameLength => (ExpectedOut = {} /\ GotOut = {})
        /\ (~lastCtx.BooleanError /\ ArrayBudgetLeft) =>
            /\ Len(lastGot.elems) < Len(arr.expectedEntries) =>
                    (OutOfRangeAt(ExpectedOut, Len(lastGot.elems)) /\ GotOut = {})
            /\ Len(lastGot.elems) > Len(arr.expectedEntries) =>
                    (OutOfRangeAt(GotOut, Len(arr.expectedEntries)) /\ ExpectedOut = {})

\* three entries against two items, the first of which differs: the
\* mismatch at index 0, then "expected value out of range" at index 2
C26_Witness ==
    /\ ArrayMatched /\ ~lastCtx.BooleanError /\ lastCtx.MaxErrors = 2
    /\ Len(arr.expectedEntries) = 3 /\ Len(lastGot.elems) = 2
    /\ Discovered = <<0, 2>>
    /\ Len(lastCtx.Errors) = 3
    /\ lastCtx.Errors[2].Message = "expected value out of range"
    /\ lastCtx.Errors[2].Path = <<2>>

\* ------------------------------------------- override on a model value
ArrayCalled == arr.status # "none"
\* the indexes that have an override and a non-zero item in the model
Conflicts ==
    {i \in DOMAIN arrEntries :
        /\ i >= 0 /\ i < Len(arrModel.elems)
        /\ At(arrModel.elems, i) # Zero(arrModel.elem)}
\* nothing else is wrong with the call: the model is of the kind asked
\* for, each override is of the items type or an operator, nil for
\* pointers only, at an index >= 0 that an array has
WellTyped(v) == IF v = NilV THEN arrModel.elem = "ptr" ELSE v.k \in {"op", arrModel.elem}
OverridesFit ==
    /\ arrModel.kind = arr.kind
    /\ \A i \in DOMAIN arrEntries :
        /\ i >= 0 /\ WellTyped(arrEntries[i])
        /\ arr.kind = "Array" => i < arrModel.len

\* C28: Array or Slice accepts no call in which an index has an override
\* and a non-zero item in the model, and fails with the "non zero entry"
\* error when nothing else is wrong with the call; with no such index and
\* nothing else wrong the call is accepted; in an accepted operator the
\* entry of an overridden index is the override, the item of the model
\* there being zero, and every other item of the model is kept.
C28_OverrideOnNonZero ==
    ArrayCalled =>
        /\ Conflicts # {} => ~ArrayBuilt
        /\ (Conflicts # {} /\ OverridesFit) =>
              /\ arr.status = "error"
              /\ arr.msg = "non zero #%d entry in model already exists in expectedEntries"
              /\ arr.index = SetMax(Conflicts)
        /\ (Conflicts = {} /\ OverridesFit) => ArrayBuilt
        /\ ArrayBuilt =>
              \A i \in 0..(Len(arrModel.elems) - 1) :
                  IF i \in DOMAIN arrEntries
                  THEN /\ At(arrModel.elems, i) = Zero(arrModel.elem)
                       /\ At(arr.expectedEntries, i) = ResolvedEntry(i)
                  ELSE At(arr.expectedEntries, i) = At(arrModel.elems, i)

\* Slice([]int{0, 1}, ArrayEntries{0: 1, 1: 1}) fails on index 1, whose
\* item in the model is not zero
C28_Witness ==
    /\ ArrayCalled /\ arr.kind = "Slice" /\ OverridesFit
    /\ arrModel.elems = <<IntV(0), IntV(1)>>
    /\ DOMAIN arrEntries = {0, 1} /\ arrEntries[0] = IntV(1) /\ arrEntries[1] = IntV(1)
    /\ Conflicts = {1}
    /\ arr.status = "error" /\ arr.index = 1

\* C29: every Array or Slice call with an override at an index that the
\* expected entries do not have, a negative one included, ends with a
\* construction error returned, never with the store out of the bounds of
\* the expected entries, which makes the call panic.
C29_IndexInRange ==
    ArrayCalled => arr.status # "panic"

\* ------------------------------------------------------- the cache of Run
\* the goroutines that are between runtMu.Lock() and runtMu.Unlock(),
\* where getRunFunc reads and writes runt
InGetRunFunc == {p \in Goroutines : gs[p].pc \in {"lookup", "store", "unlock"}}
\* getRunFunc has returned
Got(p) == gs[p].pc \in {"body", "done"}

\* C27: at most one goroutine is in the part of getRunFunc that reads and
\* writes the cache, and it holds the mutex; the cache holds for a type
\* only the result of the search of its Run method; every call that has
\* returned found a Run method exactly when the type of its TB has one of
\* signature (X) Run(string, func(X)) bool, so that two calls for one type
\* return the same.
C27_CacheLocked ==
    /\ Cardinality(InGetRunFunc) <= 1
    /\ \A p \in InGetRunFunc : runtMu = p
    /\ \A ttb \in TBTypes :
          runt[ttb] # "absent" =>
              (runt[ttb] = "found" <=> isRun(MethodByName(ttb)))
    /\ \A p \in Goroutines :
          Got(p) => (gs[p].vfuncs = "found" <=> isRun(MethodByName(gs[p].ttb)))
    /\ \A p, q \in Goroutines :
          (Got(p) /\ Got(q) /\ gs[p].ttb = gs[q].ttb) => gs[p].vfuncs = gs[q].vfuncs

\* one goroutine has found the Run method of *testing.T and stored it,
\* the other waits for the mutex to look the same type up
C27_Witness ==
    /\ gs[1].pc = "unlock" /\ gs[1].ttb = "*testing.T" /\ gs[1].vfuncs = "found"
    /\ runt["*testing.T"] = "found" /\ runtMu = 1
    /\ gs[2].pc = "lock" /\ gs[2].ttb = "*testing.T"

\* ------------------------------------------------------ Run, fallback path
\* C30: Run on a TB without a suitable Run method logs the name on the
\* TB, calls f once in the same step, and returns true exactly when f
\* reported no failure.
C30_FallbackReturn ==
    \A p \in Goroutines :
        (Done(p) /\ gs[p].method = "Run" /\ gs[p].path = "fallback") =>
            /\ Len(gs[p].fCalls) = 1
            /\ tbs[Receiver(p).TB].logs # <<>>
            /\ gs[p].ret <=> ~gs[p].fFails

====
